---- MODULE Spec2Model ----
(***************************************************************************)
(* ROI engine of the video analyzer (video_analyzer/src/roi_engine.py):    *)
(* the zone registry, the per (track, zone) TrackState store, the frame    *)
(* processor process_detections and the lost-track reaper                  *)
(* _handle_lost_tracks.                                                    *)
(*                                                                         *)
(* Units.  The values of the monotonic clock are whole multiples of 0.1 s, *)
(* counted in ticks: the reaper's 1.0 s tolerance is 10 ticks and the 0.2 s*)
(* grace window of the dwell check is 2 ticks; the reading 0 is 0.0.  The  *)
(* clock advances between two process_detections calls and not within one  *)
(* (all the reads of time.monotonic() of a call return the same value).    *)
(* Coordinates handed to                                                   *)
(* the containment test are in half pixels, so that the midpoint           *)
(* (x1 + x2) / 2.0 of compute_reference_point stays an integer.            *)
(* Python's None is the value None (-1); timestamps are >= 0.              *)
(***************************************************************************)
EXTENDS Integers, Sequences, FiniteSets

VARIABLES
    rois,              \* self._rois: the registry, in dict insertion order
    track_states,      \* self._track_states, in dict insertion order
    dwell_thresholds,  \* self._dwell_thresholds: roi_id -> ticks
    clock,             \* the last value read from time.monotonic(), None
                       \* before the first read
    op,                \* the operation that produced this state
    frame,             \* the detections of the last process_detections call
    events,            \* the list the last process_detections call returned
    nops,              \* operations performed on the engine so far
    configured,        \* per roi_id: the threshold of its latest registration
    kind_before,       \* per pair: the last roi_enter / roi_exit emitted
                       \* before the events of this state
    dwelled_before,    \* per pair: a dwell_time was emitted after that
                       \* roi_enter / roi_exit, before the events of this state
    document,          \* the configuration source of the last load_from_file
    report,            \* what the last load_from_file returned, logged or
                       \* raised
    children,          \* the last get_children call: its argument and the
                       \* list it returned
    reference,         \* the last compute_reference_point call outside the
                       \* engine: its arguments and the point it returned
    publisher,         \* the EventManager: its fields, the events its client
                       \* was asked to publish, and its last call
    listener           \* the MQTTListener: its fields, the position of its
                       \* persistence task, and the payloads handed to
                       \* _persist_event

vars == <<rois, track_states, dwell_thresholds, clock, op, frame, events,
          nops, configured,
          kind_before, dwelled_before, document, report,
          children, reference, publisher, listener>>

---------------------------------------------------------------------------
(* Bounds of the model.                                                    *)

\* the number of operations (calls of the engine's methods and changes of an
\* is_active flag) of a run
MaxOps == 5

---------------------------------------------------------------------------
(* Program constants.                                                      *)

None == -1

\* lost_tolerance_sec = 1.0, in ticks
LostToleranceTicks == 10

\* the 0.2 s grace window of the dwell check, in ticks
DwellGraceTicks == 2

---------------------------------------------------------------------------
(* Inputs.                                                                 *)

\* the tracked ids the tracker hands out; -1 is "not tracked"
Tracks == {1}

Untracked == -1

ZoneIds == {"Z1", "Z2", "Z3"}

Pairs == Tracks \X ZoneIds

\* the first value read from the monotonic clock, and its advance from one
\* process_detections call to the next, in ticks
FirstReadings == {0, 1}

Steps == {1, 10}

\* thresholds given to add_roi, in ticks (0: the default, no threshold)
Thresholds == {0, 1}

\* ReferencePoint
ReferencePoints == {"bottom_center", "centroid", "top_center"}

Square10 == << <<0, 0>>, <<10, 0>>, <<10, 10>>, <<0, 10>> >>

Triangle10 == << <<0, 0>>, <<10, 0>>, <<0, 10>> >>

\* ROIDefinition (name, aisle_id, camera_id and color are carried to the
\* events unchanged and are left out)
ROIDefinition(id, points, ref, parent, active) ==
    [id |-> id, points |-> points, reference_point |-> ref,
     parent_id |-> parent, is_active |-> active]

\* the definitions add_roi is called with
ZonePool ==
    { ROIDefinition("Z1", Square10, "bottom_center", "", TRUE),
      ROIDefinition("Z2", Triangle10, "centroid", "Z1", TRUE) }

\* Detection (class_id, class_name, center and bottom_center are not read
\* by the engine)
Detection(track_id, confidence, bbox) ==
    [track_id |-> track_id, confidence |-> confidence, bbox |-> bbox]

\* bounding boxes (x1, y1, x2, y2).  BoxIn: bottom centre (5, 5) and centre
\* (5, 3), inside both polygons.  BoxTall: bottom centre (2, 12) outside the
\* square, centre (2, 7) inside the triangle.  BoxEdge: bottom centre
\* (5.5, 10) on the square's edge, centre (5.5, 7) outside the triangle.
BoxIn == <<4, 1, 6, 5>>

BoxTall == <<1, 2, 3, 12>>

BoxEdge == <<3, 4, 8, 10>>

\* the detection lists of one frame: the tracker gives each tracked id to
\* at most one box of a frame
Frames ==
    { <<>>,
      << Detection(1, 9, BoxIn) >>,
      << Detection(1, 8, BoxTall) >>,
      << Detection(1, 7, BoxEdge) >>,
      << Detection(Untracked, 6, BoxIn) >>,
      << Detection(Untracked, 6, BoxIn), Detection(1, 8, BoxTall) >> }

---------------------------------------------------------------------------
(* Geometry.                                                               *)

\* compute_reference_point with the y of bottom_center and top_center
\* exchanged
compute_reference_point_flipped(bbox, strategy) ==
    LET x1 == bbox[1]
        y1 == bbox[2]
        x2 == bbox[3]
        y2 == bbox[4]
        cx == x1 + x2
    IN  CASE strategy = "bottom_center" -> <<cx, 2 * y1>>
          [] strategy = "top_center" -> <<cx, 2 * y2>>
          [] strategy = "centroid" -> <<cx, y1 + y2>>
          [] OTHER -> <<cx, 2 * y2>>

\* compute_reference_point, in half pixels: (cx, y) is <<x1 + x2, 2 * y>>
compute_reference_point(bbox, strategy) ==
    LET x1 == bbox[1]
        y1 == bbox[2]
        x2 == bbox[3]
        y2 == bbox[4]
        cx == x1 + x2
    IN  CASE strategy = "bottom_center" -> <<cx, 2 * y2>>
          [] strategy = "top_center" -> <<cx, 2 * y1>>
          [] strategy = "centroid" -> <<cx, y1 + y2>>
          [] OTHER -> <<cx, 2 * y2>>

\* vertex i of the polygon, in half pixels
Vertex(points, i) == <<2 * points[i][1], 2 * points[i][2]>>

NextIndex(points, i) == (i % Len(points)) + 1

Cross(a, b, p) ==
    (b[1] - a[1]) * (p[2] - a[2]) - (b[2] - a[2]) * (p[1] - a[1])

Between(u, v, w) == (u <= w /\ w <= v) \/ (v <= w /\ w <= u)

OnEdge(a, b, p) ==
    /\ Cross(a, b, p) = 0
    /\ Between(a[1], b[1], p[1])
    /\ Between(a[2], b[2], p[2])

\* the edge a-b crosses the horizontal ray from p towards larger x
RayCrosses(a, b, p) ==
    /\ (a[2] > p[2]) # (b[2] > p[2])
    /\ IF b[2] > a[2]
       THEN (p[1] - a[1]) * (b[2] - a[2]) < (p[2] - a[2]) * (b[1] - a[1])
       ELSE (p[1] - a[1]) * (b[2] - a[2]) > (p[2] - a[2]) * (b[1] - a[1])

\* Polygon.contains(Point): the point lies in the interior of the polygon
\* (a point of the boundary is not contained)
Contains(points, p) ==
    LET idx == 1..Len(points)
        a(i) == Vertex(points, i)
        b(i) == Vertex(points, NextIndex(points, i))
    IN  /\ \A i \in idx : ~OnEdge(a(i), b(i), p)
        /\ Cardinality({i \in idx : RayCrosses(a(i), b(i), p)}) % 2 = 1

---------------------------------------------------------------------------
(* TrackState and the store.                                               *)

\* TrackState(track_id, roi_id): the dataclass defaults
TrackState(track_id, roi_id) ==
    [track_id |-> track_id, roi_id |-> roi_id, is_inside |-> FALSE,
     entered_at |-> None, last_seen_at |-> None, confidence |-> 0,
     bbox |-> <<0, 0, 0, 0>>]

\* Python truthiness of an Optional[float]: None and 0.0 are false
Truthy(t) == t # None /\ t # 0

\* dwell_seconds with the two operands of the difference exchanged
dwell_seconds_swapped(state, mono) ==
    IF state.entered_at = None
    THEN 0
    ELSE state.entered_at
         - (IF Truthy(state.last_seen_at) THEN state.last_seen_at ELSE mono)

\* TrackState.dwell_seconds, with mono the value time.monotonic() returns
dwell_seconds(state, mono) ==
    IF state.entered_at = None
    THEN 0
    ELSE (IF Truthy(state.last_seen_at) THEN state.last_seen_at ELSE mono)
         - state.entered_at

\* the position of the key "track_id:roi_id" in the store, 0 if absent
KeyIndex(states, track_id, roi_id) ==
    LET hits == {i \in 1..Len(states) :
                    states[i].track_id = track_id /\ states[i].roi_id = roi_id}
    IN  IF hits = {} THEN 0 ELSE CHOOSE i \in hits : TRUE

HasState(states, track_id, roi_id) == KeyIndex(states, track_id, roi_id) # 0

\* _get_state: the store after the lookup (a missing key is appended)
_get_state(states, track_id, roi_id) ==
    IF HasState(states, track_id, roi_id)
    THEN states
    ELSE Append(states, TrackState(track_id, roi_id))

\* the position of roi_id in the registry, 0 if absent
RoiIndex(registry, roi_id) ==
    LET hits == {i \in 1..Len(registry) : registry[i].id = roi_id}
    IN  IF hits = {} THEN 0 ELSE CHOOSE i \in hits : TRUE

\* self._rois[roi.id] = roi: a known id keeps its place in the dict
PutRoi(registry, roi) ==
    LET i == RoiIndex(registry, roi.id)
    IN  IF i = 0 THEN Append(registry, roi) ELSE [registry EXCEPT ![i] = roi]

\* active_rois without the test of is_active
active_rois_all(registry) == registry

\* active_rois
active_rois(registry) == SelectSeq(registry, LAMBDA r : r.is_active)

\* get_children restricted to the zones that are active
get_children_active(registry, parent_id) ==
    SelectSeq(registry, LAMBDA r : r.is_active /\ r.parent_id = parent_id)

\* get_children(parent_id): the zones of the registry, in its order, whose
\* parent_id is parent_id
get_children(registry, parent_id) ==
    SelectSeq(registry, LAMBDA r : r.parent_id = parent_id)

\* ROIEvent (timestamp is the wall clock and is left out)
ROIEvent(event_type, roi, track_id, confidence, bbox, dwell) ==
    [event_type |-> event_type, roi_id |-> roi.id, track_id |-> track_id,
     confidence |-> confidence, bbox |-> bbox,
     reference_point_used |-> roi.reference_point,
     dwell_seconds |-> dwell, parent_roi_id |-> roi.parent_id]

---------------------------------------------------------------------------
(* The frame processor.                                                    *)

\* IsInside with the boundary of the polygon counted as inside
IsInsideCovers(det, roi) ==
    LET p == compute_reference_point(det.bbox, roi.reference_point)
    IN  \/ Contains(roi.points, p)
        \/ \E i \in 1..Len(roi.points) :
               OnEdge(Vertex(roi.points, i),
                      Vertex(roi.points, NextIndex(roi.points, i)), p)

\* is_inside: the reference point of the detection, by the zone's strategy,
\* is contained in the zone's polygon
IsInside(det, roi) ==
    Contains(roi.points,
             compute_reference_point(det.bbox, roi.reference_point))

\* DwellFires with a strict comparison against the threshold
DwellFiresStrict(dwell, threshold) ==
    dwell > threshold /\ dwell - threshold < DwellGraceTicks

\* DwellFires without the upper end of the window
DwellFiresNoGrace(dwell, threshold) == dwell >= threshold

\* dwell >= threshold and (dwell - threshold) < 0.2
DwellFires(dwell, threshold) ==
    dwell >= threshold /\ dwell - threshold < DwellGraceTicks

\* ProcessPair whose exit branch leaves entered_at and last_seen_at
\* as they are
ProcessPairKeepsTimestamps(acc, det, roi, thresholds, now) ==
    LET is_inside == IsInside(det, roi)
        states == _get_state(acc.states, det.track_id, roi.id)
        k == KeyIndex(states, det.track_id, roi.id)
        state == states[k]
        entered == [state EXCEPT !.is_inside = TRUE, !.entered_at = now,
                                 !.last_seen_at = now,
                                 !.confidence = det.confidence,
                                 !.bbox = det.bbox]
        stayed == [state EXCEPT !.last_seen_at = now,
                                !.confidence = det.confidence,
                                !.bbox = det.bbox]
        left == [state EXCEPT !.is_inside = FALSE]
        event(type, dwell) ==
            ROIEvent(type, roi, det.track_id, det.confidence, det.bbox, dwell)
    IN  CASE is_inside /\ ~state.is_inside ->
                [states |-> [states EXCEPT ![k] = entered],
                 events |-> Append(acc.events, event("roi_enter", 0))]
          [] is_inside /\ state.is_inside ->
                LET dwell == dwell_seconds(stayed, now)
                    fires == /\ roi.id \in DOMAIN thresholds
                             /\ DwellFires(dwell, thresholds[roi.id])
                IN  [states |-> [states EXCEPT ![k] = stayed],
                     events |-> IF fires
                                THEN Append(acc.events,
                                            event("dwell_time", dwell))
                                ELSE acc.events]
          [] ~is_inside /\ state.is_inside ->
                [states |-> [states EXCEPT ![k] = left],
                 events |-> Append(acc.events,
                                   event("roi_exit",
                                         dwell_seconds(state, now)))]
          [] OTHER -> [states |-> states, events |-> acc.events]

\* ProcessPair whose exit branch deletes the state, as the reaper does
ProcessPairExitDeletes(acc, det, roi, thresholds, now) ==
    LET is_inside == IsInside(det, roi)
        states == _get_state(acc.states, det.track_id, roi.id)
        k == KeyIndex(states, det.track_id, roi.id)
        state == states[k]
        entered == [state EXCEPT !.is_inside = TRUE, !.entered_at = now,
                                 !.last_seen_at = now,
                                 !.confidence = det.confidence,
                                 !.bbox = det.bbox]
        stayed == [state EXCEPT !.last_seen_at = now,
                                !.confidence = det.confidence,
                                !.bbox = det.bbox]
        left == [state EXCEPT !.is_inside = FALSE, !.entered_at = None,
                              !.last_seen_at = None]
        event(type, dwell) ==
            ROIEvent(type, roi, det.track_id, det.confidence, det.bbox, dwell)
    IN  CASE is_inside /\ ~state.is_inside ->
                [states |-> [states EXCEPT ![k] = entered],
                 events |-> Append(acc.events, event("roi_enter", 0))]
          [] is_inside /\ state.is_inside ->
                LET dwell == dwell_seconds(stayed, now)
                    fires == /\ roi.id \in DOMAIN thresholds
                             /\ DwellFires(dwell, thresholds[roi.id])
                IN  [states |-> [states EXCEPT ![k] = stayed],
                     events |-> IF fires
                                THEN Append(acc.events,
                                            event("dwell_time", dwell))
                                ELSE acc.events]
          [] ~is_inside /\ state.is_inside ->
                [states |-> SelectSeq(states, LAMBDA st : st # state),
                 events |-> Append(acc.events,
                                   event("roi_exit",
                                         dwell_seconds(state, now)))]
          [] OTHER -> [states |-> states, events |-> acc.events]

\* ProcessPair whose last branch (outside, not contained) records the
\* confidence and the bbox of the detection in the state
ProcessPairRecordsOutside(acc, det, roi, thresholds, now) ==
    LET is_inside == IsInside(det, roi)
        states == _get_state(acc.states, det.track_id, roi.id)
        k == KeyIndex(states, det.track_id, roi.id)
        state == states[k]
        entered == [state EXCEPT !.is_inside = TRUE, !.entered_at = now,
                                 !.last_seen_at = now,
                                 !.confidence = det.confidence,
                                 !.bbox = det.bbox]
        stayed == [state EXCEPT !.last_seen_at = now,
                                !.confidence = det.confidence,
                                !.bbox = det.bbox]
        left == [state EXCEPT !.is_inside = FALSE, !.entered_at = None,
                              !.last_seen_at = None]
        seen == [state EXCEPT !.confidence = det.confidence,
                              !.bbox = det.bbox]
        event(type, dwell) ==
            ROIEvent(type, roi, det.track_id, det.confidence, det.bbox, dwell)
    IN  CASE is_inside /\ ~state.is_inside ->
                [states |-> [states EXCEPT ![k] = entered],
                 events |-> Append(acc.events, event("roi_enter", 0))]
          [] is_inside /\ state.is_inside ->
                LET dwell == dwell_seconds(stayed, now)
                    fires == /\ roi.id \in DOMAIN thresholds
                             /\ DwellFires(dwell, thresholds[roi.id])
                IN  [states |-> [states EXCEPT ![k] = stayed],
                     events |-> IF fires
                                THEN Append(acc.events,
                                            event("dwell_time", dwell))
                                ELSE acc.events]
          [] ~is_inside /\ state.is_inside ->
                [states |-> [states EXCEPT ![k] = left],
                 events |-> Append(acc.events,
                                   event("roi_exit",
                                         dwell_seconds(state, now)))]
          [] OTHER -> [states |-> [states EXCEPT ![k] = seen],
                       events |-> acc.events]

\* one pass of the inner loop of process_detections: detection det against
\* the active zone roi.  acc is [states, events] so far.
ProcessPair(acc, det, roi, thresholds, now) ==
    LET is_inside == IsInside(det, roi)
        states == _get_state(acc.states, det.track_id, roi.id)
        k == KeyIndex(states, det.track_id, roi.id)
        state == states[k]
        entered == [state EXCEPT !.is_inside = TRUE, !.entered_at = now,
                                 !.last_seen_at = now,
                                 !.confidence = det.confidence,
                                 !.bbox = det.bbox]
        stayed == [state EXCEPT !.last_seen_at = now,
                                !.confidence = det.confidence,
                                !.bbox = det.bbox]
        left == [state EXCEPT !.is_inside = FALSE, !.entered_at = None,
                              !.last_seen_at = None]
        event(type, dwell) ==
            ROIEvent(type, roi, det.track_id, det.confidence, det.bbox, dwell)
    IN  CASE is_inside /\ ~state.is_inside ->
                [states |-> [states EXCEPT ![k] = entered],
                 events |-> Append(acc.events, event("roi_enter", 0))]
          [] is_inside /\ state.is_inside ->
                LET dwell == dwell_seconds(stayed, now)
                    fires == /\ roi.id \in DOMAIN thresholds
                             /\ DwellFires(dwell, thresholds[roi.id])
                IN  [states |-> [states EXCEPT ![k] = stayed],
                     events |-> IF fires
                                THEN Append(acc.events,
                                            event("dwell_time", dwell))
                                ELSE acc.events]
          [] ~is_inside /\ state.is_inside ->
                [states |-> [states EXCEPT ![k] = left],
                 events |-> Append(acc.events,
                                   event("roi_exit",
                                         dwell_seconds(state, now)))]
          [] OTHER -> [states |-> states, events |-> acc.events]

\* for roi in self.active_rois: the zones from position j on
RECURSIVE ProcessRois(_, _, _, _, _, _)
ProcessRois(acc, det, active, j, thresholds, now) ==
    IF j > Len(active)
    THEN acc
    ELSE ProcessRois(ProcessPair(acc, det, active[j], thresholds, now),
                     det, active, j + 1, thresholds, now)

\* ProcessDets without the skip of the detections whose track_id is < 0
RECURSIVE ProcessDetsNoSkip(_, _, _, _, _, _)
ProcessDetsNoSkip(acc, detections, i, registry, thresholds, now) ==
    IF i > Len(detections)
    THEN acc
    ELSE ProcessDetsNoSkip(ProcessRois(acc, detections[i],
                                       active_rois(registry),
                                       1, thresholds, now),
                           detections, i + 1, registry, thresholds, now)

\* for det in detections: the detections from position i on
RECURSIVE ProcessDets(_, _, _, _, _, _)
ProcessDets(acc, detections, i, registry, thresholds, now) ==
    IF i > Len(detections)
    THEN acc
    ELSE IF detections[i].track_id < 0
    THEN ProcessDets(acc, detections, i + 1, registry, thresholds, now)
    ELSE ProcessDets(ProcessRois(acc, detections[i], active_rois(registry),
                                 1, thresholds, now),
                     detections, i + 1, registry, thresholds, now)

\* seen_track_ids at the end of the loop
SeenTrackIds(detections) ==
    {detections[i].track_id : i \in {j \in 1..Len(detections) :
                                        detections[j].track_id >= 0}}

---------------------------------------------------------------------------
(* The lost-track reaper.                                                  *)

\* IsLost without the test of is_inside
IsLostAnyState(state, seen_track_ids, now) ==
    /\ state.track_id \notin seen_track_ids
    /\ ~(Truthy(state.last_seen_at)
         /\ now - state.last_seen_at < LostToleranceTicks)

\* IsLost without the test that the track is not in the frame
IsLostThoughSeen(state, seen_track_ids, now) ==
    /\ state.is_inside
    /\ ~(Truthy(state.last_seen_at)
         /\ now - state.last_seen_at < LostToleranceTicks)

\* the state passes the three "continue" tests of _handle_lost_tracks
IsLost(state, seen_track_ids, now) ==
    /\ state.is_inside
    /\ state.track_id \notin seen_track_ids
    /\ ~(Truthy(state.last_seen_at)
         /\ now - state.last_seen_at < LostToleranceTicks)

\* LostEvents whose events carry the defaults of a new TrackState in place
\* of the confidence and the bbox kept in the state
RECURSIVE LostEventsUncached(_, _, _, _, _)
LostEventsUncached(states, i, registry, seen_track_ids, now) ==
    IF i > Len(states)
    THEN <<>>
    ELSE LET state == states[i]
             r == RoiIndex(registry, state.roi_id)
             rest == LostEventsUncached(states, i + 1, registry,
                                        seen_track_ids, now)
         IN  IF IsLost(state, seen_track_ids, now) /\ r # 0
             THEN <<ROIEvent("roi_exit", registry[r], state.track_id,
                             0, <<0, 0, 0, 0>>,
                             dwell_seconds(state, now))>> \o rest
             ELSE rest

\* the roi_exit events of the lost states from position i on, in the order
\* of the store
RECURSIVE LostEvents(_, _, _, _, _)
LostEvents(states, i, registry, seen_track_ids, now) ==
    IF i > Len(states)
    THEN <<>>
    ELSE LET state == states[i]
             r == RoiIndex(registry, state.roi_id)
             rest == LostEvents(states, i + 1, registry, seen_track_ids, now)
         IN  IF IsLost(state, seen_track_ids, now) /\ r # 0
             THEN <<ROIEvent("roi_exit", registry[r], state.track_id,
                             state.confidence, state.bbox,
                             dwell_seconds(state, now))>> \o rest
             ELSE rest

\* _handle_lost_tracks without the deletion of keys_to_cleanup: the lost
\* states are marked outside and stay in the store
handle_lost_tracks_no_cleanup(states, registry, seen_track_ids, now) ==
    [states |-> [k \in 1..Len(states) |->
                    IF IsLost(states[k], seen_track_ids, now)
                    THEN [states[k] EXCEPT !.is_inside = FALSE,
                                           !.entered_at = None,
                                           !.last_seen_at = None]
                    ELSE states[k]],
     events |-> LostEvents(states, 1, registry, seen_track_ids, now)]

\* _handle_lost_tracks without the keys_to_cleanup.append(key) of the
\* branch for a zone that is not in the registry
handle_lost_tracks_keeps_orphans(states, registry, seen_track_ids, now) ==
    [states |-> SelectSeq(states,
                          LAMBDA st : \/ ~IsLost(st, seen_track_ids, now)
                                      \/ RoiIndex(registry, st.roi_id) = 0),
     events |-> LostEvents(states, 1, registry, seen_track_ids, now)]

\* _handle_lost_tracks: the events, and the store after keys_to_cleanup
\* (every lost state, with or without a zone) has been deleted
_handle_lost_tracks(states, registry, seen_track_ids, now) ==
    [states |-> SelectSeq(states,
                          LAMBDA st : ~IsLost(st, seen_track_ids, now)),
     events |-> LostEvents(states, 1, registry, seen_track_ids, now)]

\* process_detections that returns the reaper's events before those of the
\* frame processor
process_detections_lost_first(states, registry, thresholds, detections, now) ==
    LET framed == ProcessDets([states |-> states, events |-> <<>>],
                              detections, 1, registry, thresholds, now)
        lost == _handle_lost_tracks(framed.states, registry,
                                    SeenTrackIds(detections), now)
    IN  [states |-> lost.states, events |-> lost.events \o framed.events]

\* process_detections: the store and the returned list
process_detections(states, registry, thresholds, detections, now) ==
    LET framed == ProcessDets([states |-> states, events |-> <<>>],
                              detections, 1, registry, thresholds, now)
        lost == _handle_lost_tracks(framed.states, registry,
                                    SeenTrackIds(detections), now)
    IN  [states |-> lost.states, events |-> framed.events \o lost.events]

---------------------------------------------------------------------------
(* History of the emitted events, per (track_id, roi_id) pair.             *)

\* the kind of the last roi_enter / roi_exit of pair after the events evs
\* ("none" before the first); last is the kind before them
RECURSIVE LastKindAfter(_, _, _, _)
LastKindAfter(last, evs, i, pair) ==
    IF i > Len(evs)
    THEN last
    ELSE LET e == evs[i]
             mine == /\ <<e.track_id, e.roi_id>> = pair
                     /\ e.event_type \in {"roi_enter", "roi_exit"}
         IN  LastKindAfter(IF mine THEN e.event_type ELSE last,
                           evs, i + 1, pair)

\* whether pair has had a dwell_time event since its last roi_enter /
\* roi_exit, after the events evs
RECURSIVE DwelledAfter(_, _, _, _)
DwelledAfter(d, evs, i, pair) ==
    IF i > Len(evs)
    THEN d
    ELSE LET e == evs[i]
             mine == <<e.track_id, e.roi_id>> = pair
         IN  DwelledAfter(IF mine THEN e.event_type = "dwell_time" ELSE d,
                          evs, i + 1, pair)

---------------------------------------------------------------------------
(* The engine.                                                             *)

NoThresholds == [id \in {} |-> 0]

\* before load_from_file has been called: no source, nothing reported
NoSource == [kind |-> "none", rois |-> <<>>]

\* EventManager.__init__, before any call.  client is "none" (self._client
\* is None), "started" (its network loop runs and calls _on_connect and
\* _on_disconnect) or "stopped" (set, its loop not running).  publish_calls
\* are the events self._client.publish was called with; args, reads,
\* returns and result are the events of the last call, the value of
\* self._connected each publish_event read, what each publish_event
\* returned, and what the call returned.
NoPublisher ==
    [client |-> "none", connected |-> FALSE, event_count |-> 0,
     publish_calls |-> <<>>, op |-> "init", args |-> <<>>, reads |-> <<>>,
     returns |-> <<>>, result |-> None, calls |-> 0]

\* MQTTListener.__init__.  task is the position of _persist_loop: "none"
\* before start, "waiting" on the queue (line 138), "persisting" (line
\* 142), "sleeping" after an error (line 156), "ended" once it has raised
\* CancelledError.  handed are the payloads _persist_event was called
\* with; queued_at_stop is the queue when stop() cancelled the task.
NoListener ==
    [running |-> FALSE, event_queue |-> <<>>, task |-> "none",
     handed |-> <<>>, events_persisted |-> 0, received |-> 0,
     stopped |-> FALSE, queued_at_stop |-> <<>>, task_at_stop |-> "none",
     steps |-> 0]

\* before compute_reference_point has been called
NoReference == [bbox |-> <<0, 0, 0, 0>>, strategy |-> "bottom_center",
                point |-> <<0, 0>>]

\* before get_children has been called
NoChildren == [parent_id |-> "", result |-> <<>>]

NoReport == [loaded |-> None, total |-> None, raised |-> "none",
             buffer_valid |-> TRUE]

\* ROIEngine.__init__
Init ==
    /\ rois = <<>>
    /\ track_states = <<>>
    /\ dwell_thresholds = NoThresholds
    /\ clock = None
    /\ nops = 0
    /\ op = "init"
    /\ frame = <<>>
    /\ events = <<>>
    /\ configured = [id \in ZoneIds |-> 0]
    /\ kind_before = [p \in Pairs |-> "none"]
    /\ dwelled_before = [p \in Pairs |-> FALSE]
    /\ document = NoSource
    /\ report = NoReport
    /\ children = NoChildren
    /\ reference = NoReference
    /\ publisher = NoPublisher
    /\ listener = NoListener

\* the history once the events of this state are part of it
History ==
    /\ kind_before' = [p \in Pairs |->
                          LastKindAfter(kind_before[p], events, 1, p)]
    /\ dwelled_before' = [p \in Pairs |->
                             DwelledAfter(dwelled_before[p], events, 1, p)]

\* what an operation other than process_detections leaves alone: it reads
\* no clock and returns no events
Quiet ==
    /\ frame' = <<>>
    /\ events' = <<>>
    /\ clock' = clock
    /\ History
    /\ UNCHANGED <<document, report, children, reference>>
    /\ UNCHANGED <<publisher, listener>>

\* self._dwell_thresholds[roi.id] = dwell_threshold_sec, if it is > 0
SetThreshold(thresholds, id, dwell_threshold_sec) ==
    IF dwell_threshold_sec > 0
    THEN [x \in DOMAIN thresholds \cup {id} |->
             IF x = id THEN dwell_threshold_sec ELSE thresholds[x]]
    ELSE thresholds

\* add_roi that drops the states of the zone id it registers
add_roi_drops_states(roi, dwell_threshold_sec) ==
    /\ rois' = PutRoi(rois, roi)
    /\ dwell_thresholds' =
           SetThreshold(dwell_thresholds, roi.id, dwell_threshold_sec)
    /\ configured' = [configured EXCEPT ![roi.id] = dwell_threshold_sec]
    /\ op' = "add_roi"
    /\ track_states' = SelectSeq(track_states,
                                 LAMBDA st : st.roi_id # roi.id)
    /\ Quiet

\* add_roi(roi, dwell_threshold_sec)
add_roi(roi, dwell_threshold_sec) ==
    /\ rois' = PutRoi(rois, roi)
    /\ dwell_thresholds' =
           SetThreshold(dwell_thresholds, roi.id, dwell_threshold_sec)
    /\ configured' = [configured EXCEPT ![roi.id] = dwell_threshold_sec]
    /\ op' = "add_roi"
    /\ UNCHANGED track_states
    /\ Quiet

\* roi.is_active = flag, on the zone at position i of the registry
set_active(i, flag) ==
    /\ rois' = [rois EXCEPT ![i].is_active = flag]
    /\ op' = "set_active"
    /\ UNCHANGED <<track_states, dwell_thresholds, configured>>
    /\ Quiet

\* reset() that also empties the dwell-threshold map
reset_clears_thresholds ==
    /\ track_states' = <<>>
    /\ dwell_thresholds' = NoThresholds
    /\ op' = "reset"
    /\ UNCHANGED <<rois, configured>>
    /\ Quiet

\* reset()
reset ==
    /\ track_states' = <<>>
    /\ op' = "reset"
    /\ UNCHANGED <<rois, dwell_thresholds, configured>>
    /\ Quiet

\* clear_all() without self._track_states.clear()
clear_all_keeps_states ==
    /\ rois' = <<>>
    /\ dwell_thresholds' = NoThresholds
    /\ configured' = [id \in ZoneIds |-> 0]
    /\ op' = "clear_all"
    /\ UNCHANGED track_states
    /\ Quiet

\* clear_all() without self._dwell_thresholds.clear()
clear_all_keeps_thresholds ==
    /\ rois' = <<>>
    /\ track_states' = <<>>
    /\ configured' = [id \in ZoneIds |-> 0]
    /\ op' = "clear_all"
    /\ UNCHANGED dwell_thresholds
    /\ Quiet

\* clear_all()
clear_all ==
    /\ rois' = <<>>
    /\ track_states' = <<>>
    /\ dwell_thresholds' = NoThresholds
    /\ configured' = [id \in ZoneIds |-> 0]
    /\ op' = "clear_all"
    /\ Quiet

\* events = process_detections(detections), called at monotonic time now
Call(detections, now) ==
    LET out == process_detections(track_states, rois, dwell_thresholds,
                                  detections, now)
    IN  /\ clock' = now
        /\ track_states' = out.states
        /\ events' = out.events
        /\ frame' = detections
        /\ op' = "process_detections"
        /\ History
        /\ UNCHANGED <<rois, dwell_thresholds, configured>>
        /\ UNCHANGED <<document, report, children, reference>>
        /\ UNCHANGED <<publisher, listener>>

---------------------------------------------------------------------------
(* The engine under any bounded sequence of operations.                    *)

\* one more operation of a bounded run
Step == nops < MaxOps /\ nops' = nops + 1

AddRoi ==
    \E roi \in ZonePool, dwell_threshold_sec \in Thresholds :
        Step /\ add_roi(roi, dwell_threshold_sec)

SetActive ==
    \E i \in 1..Len(rois), flag \in BOOLEAN :
        Step /\ rois[i].is_active # flag /\ set_active(i, flag)

Reset == Step /\ reset

ClearAll == Step /\ clear_all

\* the values the next read of time.monotonic() can return
Readings ==
    IF clock = None THEN FirstReadings ELSE {clock + step : step \in Steps}

ProcessDetections ==
    \E detections \in Frames, now \in Readings :
        Step /\ Call(detections, now)

Next ==
    \/ AddRoi
    \/ SetActive
    \/ Reset
    \/ ClearAll
    \/ ProcessDetections

Spec == Init /\ [][Next]_vars

---------------------------------------------------------------------------
(* Scenarios A and B: one 10 x 10 zone with a bottom_center reference and  *)
(* a 2.0 s dwell threshold; one tracked object whose bottom centre is at   *)
(* (5, 5) in the calls at monotonic times 0, 1 s and 2 s, and which is in  *)
(* no later detection list.                                                *)

\* the calls after the object's last sighting are made within MaxAbsent
\* ticks of it
MaxAbsent == 15

ScenarioZone == ROIDefinition("Z1", Square10, "bottom_center", "", TRUE)

\* bounding boxes whose bottom centre is (5, 5)
ScenarioBoxes == {<<4, 1, 6, 5>>, <<3, 0, 7, 5>>, <<2, 3, 8, 5>>}

\* detection lists without the object
AbsentFrames == {<<>>, <<Detection(Untracked, 6, BoxIn)>>}

ScenarioAddRoi ==
    /\ nops = 0
    /\ nops' = 1
    /\ add_roi(ScenarioZone, 20)

\* the calls at 0, 10 and 20 ticks
ScenarioInside ==
    \E bbox \in ScenarioBoxes :
        /\ nops \in 1..3
        /\ nops' = nops + 1
        /\ Call(<<Detection(1, 9, bbox)>>, 10 * (nops - 1))

ScenarioAbsent ==
    \E detections \in AbsentFrames, step \in 1..MaxAbsent :
        /\ nops >= 4
        /\ clock + step <= 20 + MaxAbsent
        /\ nops' = nops + 1
        /\ Call(detections, clock + step)

ScenarioNext ==
    \/ ScenarioAddRoi
    \/ ScenarioInside
    \/ ScenarioAbsent

ScenarioSpec == Init /\ [][ScenarioNext]_vars

---------------------------------------------------------------------------
(* load_from_file.  A configuration source is a missing file, a file that  *)
(* json.load cannot parse, or a document whose "rois" list holds entries.  *)
(* A value of an entry is a JSON value with its type: a key that is absent,*)
(* null, a number, a string, a boolean or a list.  aisle_id and camera_id  *)
(* are read as name is and are left out.                                   *)

\* the number of entries of a document
MaxEntries == 3

J(t, v) == [t |-> t, v |-> v]

Absent == J("absent", 0)

Null == J("null", 0)

Num(n) == J("num", n)

Str(x) == J("str", x)

Bool(b) == J("bool", b)

List(l) == J("list", l)

Entry(id, name, points, ref, parent, active, color, dwell) ==
    [id |-> id, name |-> name, points |-> points, reference_point |-> ref,
     parent_id |-> parent, is_active |-> active, color |-> color,
     dwell_threshold_sec |-> dwell]

\* a self-intersecting polygon, and a list of two points
Bowtie10 == << <<0, 0>>, <<10, 10>>, <<10, 0>>, <<0, 10>> >>

Segment10 == << <<0, 0>>, <<10, 0>> >>

\* the entries of the documents: two complete ones; one without "name";
\* one with two points; one with an unknown reference_point string; one
\* with "color": null; one with "dwell_threshold_sec": null; one whose
\* polygon intersects itself
EntryPool ==
    << Entry(Str("Z1"), Str("A"), List(Square10), Str("bottom_center"),
             Null, Absent, List(<<0, 255, 0>>), Num(20)),
       Entry(Str("Z2"), Str("B"), List(Triangle10), Str("centroid"),
             Str("Z1"), Bool(FALSE), Absent, Absent),
       Entry(Str("Z2"), Absent, List(Triangle10), Str("centroid"),
             Str("Z1"), Absent, Absent, Absent),
       Entry(Str("Z1"), Str("A"), List(Segment10), Absent,
             Absent, Absent, Absent, Num(20)),
       Entry(Str("Z2"), Str("B"), List(Square10), Str("middle"),
             Absent, Absent, Absent, Num(0)),
       Entry(Str("Z1"), Str("A"), List(Square10), Str("top_center"),
             Absent, Absent, Null, Absent),
       Entry(Str("Z2"), Str("B"), List(Triangle10), Absent,
             Absent, Absent, Absent, Null),
       Entry(Str("Z2"), Str("B"), List(Bowtie10), Str("bottom_center"),
             Absent, Absent, Absent, Absent) >>

\* the "rois" lists of at most MaxEntries entries, as lists of positions
\* of EntryPool
DocumentShapes ==
    UNION { [1..n -> 1..Len(EntryPool)] : n \in 0..MaxEntries }

Document(shape) == [i \in DOMAIN shape |-> EntryPool[shape[i]]]

\* a file that does not exist, a file that is not JSON, a zone document
MissingFile == [kind |-> "missing", rois |-> <<>>]

NotJson == [kind |-> "not_json", rois |-> <<>>]

ZoneDocument(shape) == [kind |-> "document", rois |-> Document(shape)]

\* the segments a-b and c-d have a point in common
SegmentsMeet(a, b, c, d) ==
    \/ /\ Cross(c, d, a) * Cross(c, d, b) < 0
       /\ Cross(a, b, c) * Cross(a, b, d) < 0
    \/ OnEdge(c, d, a) \/ OnEdge(c, d, b)
    \/ OnEdge(a, b, c) \/ OnEdge(a, b, d)

\* twice the signed area of the ring, from vertex i on
RECURSIVE Area2(_, _)
Area2(points, i) ==
    IF i > Len(points)
    THEN 0
    ELSE LET a == Vertex(points, i)
             b == Vertex(points, NextIndex(points, i))
         IN  a[1] * b[2] - b[1] * a[2] + Area2(points, i + 1)

\* Polygon(points).is_valid: the ring encloses an area and no two of its
\* edges that are not neighbours have a point in common
IsValid(points) ==
    /\ Area2(points, 1) # 0
    /\ \A i, j \in 1..Len(points) :
          (i < j /\ j # i + 1 /\ ~(i = 1 /\ j = Len(points)))
          => ~SegmentsMeet(Vertex(points, i),
                           Vertex(points, NextIndex(points, i)),
                           Vertex(points, j),
                           Vertex(points, NextIndex(points, j)))

\* ReferencePoint(ref_str) succeeds
KnownReference(e) ==
    e.reference_point.t = "str" /\ e.reference_point.v \in ReferencePoints

\* EntryException without the fallback of lines 160-162: the ValueError of
\* ReferencePoint(ref_str) reaches the except clause of the loop body
EntryExceptionNoFallback(e) ==
    CASE e.reference_point.t # "absent" /\ ~KnownReference(e)
                                                        -> "ValueError"
      [] e.color.t \in {"null", "num", "bool"}          -> "TypeError"
      [] e.points.t = "absent"                          -> "KeyError"
      [] e.points.t # "list"                            -> "TypeError"
      [] e.id.t = "absent" \/ e.name.t = "absent"       -> "KeyError"
      [] Len(e.points.v) < 3                            -> "ValueError"
      [] e.dwell_threshold_sec.t \in {"null", "str"}    -> "TypeError"
      [] OTHER                                          -> "none"

\* the exception one pass of the loop body raises, "none" if it runs to
\* loaded += 1, in the order of the statements: the warning of the
\* reference-point fallback reads roi_data['id']; len(color_list);
\* iteration over roi_data["points"]; the required keys; __post_init__;
\* dwell_sec > 0
EntryException(e) ==
    CASE /\ e.reference_point.t # "absent"
         /\ ~KnownReference(e)
         /\ e.id.t = "absent"                          -> "KeyError"
      [] e.color.t \in {"null", "num", "bool"}          -> "TypeError"
      [] e.points.t = "absent"                          -> "KeyError"
      [] e.points.t # "list"                            -> "TypeError"
      [] e.id.t = "absent" \/ e.name.t = "absent"       -> "KeyError"
      [] Len(e.points.v) < 3                            -> "ValueError"
      [] e.dwell_threshold_sec.t \in {"null", "str"}    -> "TypeError"
      [] OTHER                                          -> "none"

\* the pass reaches self._rois[roi.id] = roi
Registers(e) ==
    \/ EntryException(e) = "none"
    \/ /\ EntryException(e) = "TypeError"
       /\ e.color.t \notin {"null", "num", "bool"}
       /\ e.points.t = "list"

\* the ROIDefinition built from an entry
EntryRoi(e) ==
    ROIDefinition(e.id.v, e.points.v,
                  IF e.reference_point.t = "absent" \/ ~KnownReference(e)
                  THEN "bottom_center"
                  ELSE e.reference_point.v,
                  IF e.parent_id.t = "str" THEN e.parent_id.v ELSE "",
                  IF e.is_active.t = "absent" THEN TRUE ELSE e.is_active.v)

\* roi_data.get("dwell_threshold_sec", 0.0), when it is a number
EntryDwell(e) ==
    IF e.dwell_threshold_sec.t = "num" THEN e.dwell_threshold_sec.v ELSE 0

\* one pass of the loop over rois_data; acc is [rois, thresholds,
\* configured, loaded, raised].  KeyError and ValueError are caught and
\* the entry is skipped; any other exception leaves the function.
LoadEntry(acc, e) ==
    LET exc == EntryException(e)
        registered ==
            [acc EXCEPT !.rois = PutRoi(acc.rois, EntryRoi(e)),
                        !.configured =
                            [acc.configured EXCEPT ![e.id.v] = EntryDwell(e)]]
    IN  CASE exc = "none" ->
                 [registered EXCEPT
                     !.thresholds = SetThreshold(acc.thresholds, e.id.v,
                                                 EntryDwell(e)),
                     !.loaded = acc.loaded + 1]
          [] exc \in {"KeyError", "ValueError"} -> acc
          [] OTHER ->
                 [(IF Registers(e) THEN registered ELSE acc)
                     EXCEPT !.raised = exc]

\* the loop over rois_data from position i on, left at the first exception
\* that is not caught
RECURSIVE LoadEntries(_, _, _)
LoadEntries(acc, entries, i) ==
    IF i > Len(entries) \/ acc.raised # "none"
    THEN acc
    ELSE LoadEntries(LoadEntry(acc, entries[i]), entries, i + 1)

\* load_from_file(filepath) on the source at filepath; buffer_valid is
\* whether the polygons buffer(0) returns in __post_init__ are valid
load_from_file(source, buffer_valid) ==
    LET start == [rois |-> rois, thresholds |-> dwell_thresholds,
                  configured |-> configured, loaded |-> 0,
                  raised |-> IF source.kind = "not_json"
                             THEN "JSONDecodeError" ELSE "none"]
        out == IF source.kind = "document"
               THEN LoadEntries(start, source.rois, 1)
               ELSE start
        returns == out.raised = "none"
    IN  /\ rois' = out.rois
        /\ dwell_thresholds' = out.thresholds
        /\ configured' = out.configured
        /\ document' = source
        /\ report' = [loaded |-> IF returns THEN out.loaded ELSE None,
                      total |-> IF returns /\ source.kind = "document"
                                THEN Len(source.rois) ELSE None,
                      raised |-> out.raised,
                      buffer_valid |-> buffer_valid]
        /\ op' = "load_from_file"
        /\ frame' = <<>>
        /\ events' = <<>>
        /\ clock' = clock
        /\ History
        /\ UNCHANGED <<track_states, children, reference, publisher,
                       listener>>

\* main: the engine is built and load_from_file is called once, on a
\* path where no file is, on a file that is not JSON, or on a zone document
LoadMissing ==
    /\ nops = 0
    /\ nops' = nops + 1
    /\ load_from_file(MissingFile, TRUE)

LoadNotJson ==
    /\ nops = 0
    /\ nops' = nops + 1
    /\ load_from_file(NotJson, TRUE)

LoadDocument ==
    \E shape \in DocumentShapes, buffer_valid \in BOOLEAN :
        /\ nops = 0
        /\ nops' = nops + 1
        /\ load_from_file(ZoneDocument(shape), buffer_valid)

LoadNext ==
    \/ LoadMissing
    \/ LoadNotJson
    \/ LoadDocument

LoadSpec == Init /\ [][LoadNext]_vars

---------------------------------------------------------------------------
(* The zone hierarchy: zones are registered, switched on and off, and      *)
(* get_children is asked for the children of an id.                        *)

\* Z2 is a child of Z1; Z3 is a child of Z2, or of Z1
HierarchyPool ==
    { ROIDefinition("Z1", Square10, "bottom_center", "", TRUE),
      ROIDefinition("Z2", Triangle10, "centroid", "Z1", TRUE),
      ROIDefinition("Z3", Triangle10, "centroid", "Z2", TRUE),
      ROIDefinition("Z3", Square10, "top_center", "Z1", FALSE) }

\* the ids get_children is asked about: the registered ones, None ("") and
\* an id no zone has
ParentIds == ZoneIds \cup {"", "Z9"}

HierarchyAddRoi ==
    \E roi \in HierarchyPool :
        /\ add_roi(roi, 0)
        /\ UNCHANGED nops

HierarchySetActive ==
    \E i \in 1..Len(rois), flag \in BOOLEAN :
        /\ rois[i].is_active # flag
        /\ set_active(i, flag)
        /\ UNCHANGED nops

GetChildren ==
    \E parent_id \in ParentIds :
        /\ children' = [parent_id |-> parent_id,
                        result |-> get_children(rois, parent_id)]
        /\ op' = "get_children"
        /\ frame' = <<>>
        /\ events' = <<>>
        /\ History
        /\ UNCHANGED <<rois, track_states, dwell_thresholds, clock, nops,
                       configured, document, report, reference, publisher,
                       listener>>

HierarchyNext ==
    \/ HierarchyAddRoi
    \/ HierarchySetActive
    \/ GetChildren

HierarchySpec == Init /\ [][HierarchyNext]_vars

---------------------------------------------------------------------------
(* compute_reference_point on the boxes a detector returns: corners        *)
(* (x1, y1) and (x2, y2) with x1 <= x2 and y1 <= y2, in whole pixels.      *)

\* the largest pixel coordinate of a box
MaxCoord == 3

Boxes ==
    {b \in (0..MaxCoord) \X (0..MaxCoord) \X (0..MaxCoord) \X (0..MaxCoord) :
        b[1] <= b[3] /\ b[2] <= b[4]}

ComputeReferencePoint ==
    \E bbox \in Boxes, strategy \in ReferencePoints :
        /\ reference' = [bbox |-> bbox, strategy |-> strategy,
                         point |-> compute_reference_point(bbox, strategy)]
        /\ op' = "compute_reference_point"
        /\ frame' = <<>>
        /\ events' = <<>>
        /\ History
        /\ UNCHANGED <<rois, track_states, dwell_thresholds, clock, nops,
                       configured, document, report, children, publisher,
                       listener>>

ReferenceNext == ComputeReferencePoint

ReferenceSpec == Init /\ [][ReferenceNext]_vars

---------------------------------------------------------------------------
(* Frames with two tracked objects, for the order of the returned list.    *)

\* the number of operations of a run with two tracks
MaxOrderOps == 5

\* detection lists with the tracks 1 and 2, in both orders
OrderFrames ==
    { <<>>,
      << Detection(1, 9, BoxIn), Detection(2, 8, BoxIn) >>,
      << Detection(2, 8, BoxIn), Detection(1, 9, BoxIn) >>,
      << Detection(2, 7, BoxTall) >>,
      << Detection(Untracked, 6, BoxIn), Detection(1, 7, BoxEdge) >> }

OrderAddRoi ==
    \E roi \in ZonePool, dwell_threshold_sec \in Thresholds :
        /\ nops < MaxOrderOps
        /\ nops' = nops + 1
        /\ add_roi(roi, dwell_threshold_sec)

OrderProcessDetections ==
    \E detections \in OrderFrames, now \in Readings :
        /\ nops < MaxOrderOps
        /\ nops' = nops + 1
        /\ Call(detections, now)

OrderNext ==
    \/ OrderAddRoi
    \/ OrderProcessDetections

OrderSpec == Init /\ [][OrderNext]_vars

---------------------------------------------------------------------------
(* The reaper on a store it is handed.  The engine's own operations take   *)
(* a zone out of the registry only in clear_all, which empties the store   *)
(* too; the branch of _handle_lost_tracks for a state whose zone is not in *)
(* the registry (lines 399-403) is reached only from a store and a         *)
(* registry set from outside.  Here the run starts from such an engine and *)
(* process_detections is called on it.                                     *)

\* the number of process_detections calls on the engine
MaxReaperCalls == 2

\* a state that is inside since entered_at and was last seen at
\* last_seen_at
InsideState(track_id, roi_id, entered_at, last_seen_at) ==
    [TrackState(track_id, roi_id) EXCEPT !.is_inside = TRUE,
                                         !.entered_at = entered_at,
                                         !.last_seen_at = last_seen_at,
                                         !.confidence = 9,
                                         !.bbox = BoxIn]

StatePool ==
    { InsideState(1, "Z1", 0, 0), InsideState(1, "Z1", 2, 5),
      TrackState(1, "Z1"), InsideState(1, "Z2", 2, 5),
      InsideState(2, "Z1", 5, 5) }

\* stores of at most two states, with one state per key
Stores ==
    {<<>>} \cup {<<a>> : a \in StatePool}
    \cup {ab \in StatePool \X StatePool :
              <<ab[1].track_id, ab[1].roi_id>>
                  # <<ab[2].track_id, ab[2].roi_id>>}

\* registries of the zones of ZonePool, Z1 before Z2
Registries ==
    LET z1 == ROIDefinition("Z1", Square10, "bottom_center", "", TRUE)
        z2 == ROIDefinition("Z2", Triangle10, "centroid", "Z1", TRUE)
    IN  {<<>>, <<z1>>, <<z2>>, <<z1, z2>>}

\* an engine whose store and registry were set, at clock reading 0.5 s
ReaperInit ==
    /\ rois \in Registries
    /\ track_states \in Stores
    /\ dwell_thresholds = NoThresholds
    /\ clock = 5
    /\ nops = 0
    /\ op = "init"
    /\ frame = <<>>
    /\ events = <<>>
    /\ configured = [id \in ZoneIds |-> 0]
    /\ kind_before =
           [p \in Pairs |->
               IF \E k \in 1..Len(track_states) :
                     /\ track_states[k].is_inside
                     /\ <<track_states[k].track_id,
                          track_states[k].roi_id>> = p
               THEN "roi_enter" ELSE "none"]
    /\ dwelled_before = [p \in Pairs |-> FALSE]
    /\ document = NoSource
    /\ report = NoReport
    /\ children = NoChildren
    /\ reference = NoReference
    /\ publisher = NoPublisher
    /\ listener = NoListener

ReaperProcessDetections ==
    \E detections \in OrderFrames, now \in Readings :
        /\ nops < MaxReaperCalls
        /\ nops' = nops + 1
        /\ Call(detections, now)

ReaperNext == ReaperProcessDetections

ReaperSpec == ReaperInit /\ [][ReaperNext]_vars

---------------------------------------------------------------------------
(* The EventManager of the video analyzer.  Its MQTT client runs a network *)
(* loop in a thread of its own, which calls _on_connect and _on_disconnect *)
(* at any time between two statements of the main thread.                  *)

\* the operations on one EventManager
MaxPublisherCalls == 3

\* the longest list publish_events is called with
MaxBatch == 2

\* the events handed to the EventManager
PublishedEvents ==
    { ROIEvent("roi_enter", ScenarioZone, 1, 9, BoxIn, 0),
      ROIEvent("roi_exit", ScenarioZone, 1, 8, BoxTall, 10) }

\* the lists publish_events is called with
Batches == UNION {[1..n -> PublishedEvents] : n \in 0..MaxBatch}

\* what self._client.publish does: it returns rc = MQTT_ERR_SUCCESS, or it
\* fails (it returns another rc, or raises: publish_event returns False
\* after both and changes nothing)
PublishOutcomes == {"success", "failure"}

\* publish_event that counts the event when there is no connection
publish_event_counts_unsent(p, event, outcome) ==
    IF p.client = "none" \/ ~p.connected
    THEN [p EXCEPT !.event_count = @ + 1,
                   !.reads = Append(@, p.connected),
                   !.returns = Append(@, FALSE)]
    ELSE IF outcome = "success"
    THEN [p EXCEPT !.publish_calls = Append(@, event),
                   !.event_count = @ + 1,
                   !.reads = Append(@, p.connected),
                   !.returns = Append(@, TRUE)]
    ELSE [p EXCEPT !.publish_calls = Append(@, event),
                   !.reads = Append(@, p.connected),
                   !.returns = Append(@, FALSE)]

\* publish_event: the manager after the call; the value returned is
\* appended to returns
publish_event(p, event, outcome) ==
    IF p.client = "none" \/ ~p.connected
    THEN [p EXCEPT !.reads = Append(@, p.connected),
                   !.returns = Append(@, FALSE)]
    ELSE IF outcome = "success"
    THEN [p EXCEPT !.publish_calls = Append(@, event),
                   !.event_count = @ + 1,
                   !.reads = Append(@, p.connected),
                   !.returns = Append(@, TRUE)]
    ELSE [p EXCEPT !.publish_calls = Append(@, event),
                   !.reads = Append(@, p.connected),
                   !.returns = Append(@, FALSE)]

\* publish_events from position i on, with published the count so far.
\* link[i] is what the callbacks of the network loop have made of
\* self._connected when publish_event(batch[i]) reads it.
RECURSIVE publish_events(_, _, _, _, _, _)
publish_events(p, batch, i, link, outcomes, published) ==
    IF i > Len(batch)
    THEN [p EXCEPT !.result = published]
    ELSE LET before == [p EXCEPT !.connected = link[i]]
             after == publish_event(before, batch[i], outcomes[i])
         IN  publish_events(after, batch, i + 1, link, outcomes,
                            IF after.returns[Len(after.returns)]
                            THEN published + 1
                            ELSE published)

\* the start of a call on the manager
Called(p, name, args) ==
    [p EXCEPT !.op = name, !.args = args, !.reads = <<>>, !.returns = <<>>,
              !.result = None, !.calls = @ + 1]

\* a step of the EventManager leaves the engine and the listener alone
PublisherStep ==
    /\ publisher.calls < MaxPublisherCalls
    /\ UNCHANGED <<rois, track_states, dwell_thresholds, clock, op, frame,
                   events, nops, configured, kind_before, dwelled_before,
                   document, report, children, reference, listener>>

\* connect(): mqtt.Client() raises; self._client.connect raises; the broker
\* accepts within 5 s; or the wait times out
Connect ==
    \E outcome \in {"no_client", "refused", "connected", "timeout"} :
        /\ PublisherStep
        /\ publisher.client = "none"
        /\ publisher' =
               LET p == Called(publisher, "connect", <<>>)
               IN  CASE outcome = "no_client" -> p
                     [] outcome = "refused" -> [p EXCEPT !.client = "stopped"]
                     [] outcome = "connected" ->
                            [p EXCEPT !.client = "started",
                                      !.connected = TRUE]
                     [] OTHER -> [p EXCEPT !.client = "started"]

\* disconnect()
Disconnect ==
    /\ PublisherStep
    /\ publisher.client # "none"
    /\ publisher' = [Called(publisher, "disconnect", <<>>)
                        EXCEPT !.client = "stopped", !.connected = FALSE]

\* _on_connect, called by the network loop with reason_code 0 or not
OnConnect ==
    \E accepted \in BOOLEAN :
        /\ PublisherStep
        /\ publisher.client = "started"
        /\ publisher' = [Called(publisher, "_on_connect", <<>>)
                            EXCEPT !.connected = accepted]

\* _on_disconnect, called by the network loop
OnDisconnect ==
    /\ PublisherStep
    /\ publisher.client = "started"
    /\ publisher.connected
    /\ publisher' = [Called(publisher, "_on_disconnect", <<>>)
                        EXCEPT !.connected = FALSE]

PublishEvent ==
    \E event \in PublishedEvents, outcome \in PublishOutcomes :
        /\ PublisherStep
        /\ (publisher.client = "none" \/ ~publisher.connected)
               => outcome = "success"
        /\ publisher' = publish_event(Called(publisher, "publish_event",
                                             <<event>>),
                                      event, outcome)

\* main: event_manager.publish_events(events)
PublishEvents ==
    \E batch \in Batches :
        \E link \in [1..Len(batch) -> BOOLEAN],
           outcomes \in [1..Len(batch) -> PublishOutcomes] :
            /\ PublisherStep
            /\ publisher.client # "started"
                   => \A i \in 1..Len(batch) : link[i] = publisher.connected
            \* the client's publish is not called without a connection
            /\ \A i \in 1..Len(batch) :
                   (publisher.client = "none" \/ ~link[i])
                   => outcomes[i] = "success"
            /\ publisher' = publish_events(Called(publisher, "publish_events",
                                                  batch),
                                           batch, 1, link, outcomes, 0)

PublisherNext ==
    \/ Connect
    \/ Disconnect
    \/ OnConnect
    \/ OnDisconnect
    \/ PublishEvent
    \/ PublishEvents

PublisherSpec == Init /\ [][PublisherNext]_vars

---------------------------------------------------------------------------
(* The MQTTListener of the backend.  _on_message runs in the thread of the *)
(* MQTT client and puts the payload in the queue through the event loop;   *)
(* _persist_loop is a task of the event loop; stop() runs in the event     *)
(* loop and has no await before it cancels the task.  A timeout of the     *)
(* wait at line 138 changes nothing and is not a step.                     *)

\* the steps of one MQTTListener
MaxListenerSteps == 8

\* the messages the broker delivers
MaxMessages == 3

\* a step of the MQTTListener leaves the engine and the publisher alone
ListenerStep ==
    /\ listener.steps < MaxListenerSteps
    /\ UNCHANGED <<rois, track_states, dwell_thresholds, clock, op, frame,
                   events, nops, configured, kind_before, dwelled_before,
                   document, report, children, reference, publisher>>

\* start(): the task is created and is waiting on the queue by the time
\* the event loop runs anything else
ListenerStart ==
    /\ ListenerStep
    /\ listener.task = "none"
    /\ ~listener.stopped
    /\ listener' = [listener EXCEPT !.running = TRUE, !.task = "waiting",
                                    !.steps = @ + 1]

\* _on_message with a payload that parses: put_nowait(payload).  The
\* payloads are numbered in the order of their arrival.
OnMessage ==
    /\ ListenerStep
    /\ listener.running
    /\ listener.received < MaxMessages
    /\ listener' = [listener EXCEPT
                        !.event_queue = Append(@, listener.received + 1),
                        !.received = @ + 1,
                        !.steps = @ + 1]

\* line 138 returns a payload and line 142 calls _persist_event with it
QueueGet ==
    /\ ListenerStep
    /\ listener.task = "waiting"
    /\ listener.event_queue # <<>>
    /\ listener' = [listener EXCEPT
                        !.task = "persisting",
                        !.handed = Append(@, Head(listener.event_queue)),
                        !.event_queue = Tail(@),
                        !.steps = @ + 1]

\* _persist_event returns: the insert was committed, or it raised and the
\* exception was logged at lines 213-214
PersistEvent ==
    \E committed \in BOOLEAN :
        /\ ListenerStep
        /\ listener.task = "persisting"
        /\ listener' = [listener EXCEPT
                            !.task = "waiting",
                            !.events_persisted =
                                IF committed THEN @ + 1 ELSE @,
                            !.steps = @ + 1]

\* the try body raises an exception that is neither TimeoutError nor
\* CancelledError: line 154 catches it and line 156 sleeps.
\* _persist_event catches its own exceptions, so this one comes from the
\* wait at line 138.
PersistLoopError ==
    /\ ListenerStep
    /\ listener.task = "waiting"
    /\ listener' = [listener EXCEPT !.task = "sleeping", !.steps = @ + 1]

\* the sleep of line 156 ends and the loop waits on the queue again
SleepEnds ==
    /\ ListenerStep
    /\ listener.task = "sleeping"
    /\ listener' = [listener EXCEPT !.task = "waiting", !.steps = @ + 1]

\* stop(): _running = False, the client is stopped, the task is cancelled
\* and awaited.  CancelledError is raised in the task where it is
\* suspended: inside the try body (line 138, or in _persist_event called
\* from line 142, which does not catch it) the handler of lines 144-152
\* hands the queue to _persist_event, of which committed succeed; at line
\* 156, in the handler of line 154, no clause of the try catches it.
stop(l, committed) ==
    IF l.task \in {"waiting", "persisting"}
    THEN [l EXCEPT !.running = FALSE, !.stopped = TRUE, !.task = "ended",
                   !.queued_at_stop = l.event_queue, !.task_at_stop = l.task,
                   !.handed = @ \o l.event_queue,
                   !.event_queue = <<>>,
                   !.events_persisted = @ + committed,
                   !.steps = @ + 1]
    ELSE [l EXCEPT !.running = FALSE, !.stopped = TRUE, !.task = "ended",
                   !.queued_at_stop = l.event_queue, !.task_at_stop = l.task,
                   !.steps = @ + 1]

ListenerStop ==
    \E committed \in 0..Len(listener.event_queue) :
        /\ ListenerStep
        /\ listener.task # "none"
        /\ ~listener.stopped
        /\ listener.task = "sleeping" => committed = 0
        /\ listener' = stop(listener, committed)

ListenerNext ==
    \/ ListenerStart
    \/ OnMessage
    \/ QueueGet
    \/ PersistEvent
    \/ PersistLoopError
    \/ SleepEnds
    \/ ListenerStop

ListenerSpec == Init /\ [][ListenerNext]_vars

---------------------------------------------------------------------------
(* The driver loop without a bound on the number of calls: one zone, one   *)
(* track, process_detections called for ever while is_active is switched  *)
(* at any time.  process_detections compares differences of monotonic      *)
(* readings only (and a last_seen_at of 0.0 with false, which no reading   *)
(* > 0 produces), so after each call the origin of time is moved to keep   *)
(* the reading at Horizon; a timestamp older than Horizon - 1 ticks is     *)
(* kept at 1, which is older than the tolerance plus the longest step.     *)

\* the reading of the clock after every call, in ticks
Horizon == 21

LiveFrames ==
    { <<>>, << Detection(1, 9, BoxIn) >>, << Detection(1, 8, BoxTall) >> }

\* a timestamp of the store after the origin has moved by shift
Rebased(t, shift) ==
    IF t = None THEN None ELSE IF t - shift < 1 THEN 1 ELSE t - shift

LiveAddRoi ==
    /\ rois = <<>>
    /\ add_roi(ScenarioZone, 0)
    /\ UNCHANGED nops

LiveSetActive ==
    \E i \in 1..Len(rois), flag \in BOOLEAN :
        /\ rois[i].is_active # flag
        /\ set_active(i, flag)
        /\ UNCHANGED nops

\* main: one pass of the loop, step ticks after the pass before
LiveProcessDetections ==
    \E detections \in LiveFrames, step \in Steps :
        LET now == IF clock = None THEN Horizon ELSE clock + step
            out == process_detections(track_states, rois, dwell_thresholds,
                                      detections, now)
            shift == now - Horizon
        IN  /\ clock' = now - shift
            /\ track_states' =
                   [k \in 1..Len(out.states) |->
                       [out.states[k] EXCEPT
                           !.entered_at = Rebased(@, shift),
                           !.last_seen_at = Rebased(@, shift)]]
            /\ events' = out.events
            /\ frame' = detections
            /\ op' = "process_detections"
            /\ History
            /\ UNCHANGED <<rois, dwell_thresholds, configured, nops>>
            /\ UNCHANGED <<document, report, children, reference>>
            /\ UNCHANGED <<publisher, listener>>

LiveNext ==
    \/ LiveAddRoi
    \/ LiveSetActive
    \/ LiveProcessDetections

\* main keeps calling process_detections
LiveSpec ==
    Init /\ [][LiveNext]_vars /\ WF_vars(LiveProcessDetections)

---------------------------------------------------------------------------
(* Reading the events of a state.                                          *)

PairOf(e) == <<e.track_id, e.roi_id>>

\* the positions in the returned list of the events of pair with a type in
\* types
EventIdx(types, pair) ==
    {i \in 1..Len(events) :
        events[i].event_type \in types /\ PairOf(events[i]) = pair}

\* the last roi_enter / roi_exit of pair emitted before events[i]
KindAt(pair, i) ==
    LastKindAfter(kind_before[pair], SubSeq(events, 1, i - 1), 1, pair)

\* a dwell_time of pair was emitted between its last roi_enter / roi_exit
\* and events[i]
DwelledAt(pair, i) ==
    DwelledAfter(dwelled_before[pair], SubSeq(events, 1, i - 1), 1, pair)

\* events[i] comes from the reaper: its track is not in the frame
IsLostExit(i) ==
    /\ events[i].event_type = "roi_exit"
    /\ events[i].track_id \notin SeenTrackIds(frame)

---------------------------------------------------------------------------
(* C1.  Every roi_exit of a (track_id, zone) pair, from the frame          *)
(* processor or from the reaper, is preceded by a roi_enter of the same    *)
(* pair with no other roi_exit of the pair in between.                     *)
C1_ExitFollowsEnter ==
    \A p \in Pairs : \A i \in EventIdx({"roi_exit"}, p) :
        KindAt(p, i) = "roi_enter"

\* a lost-track roi_exit that closes an open roi_enter, in a run of at
\* least four operations
C1_Witness ==
    /\ nops >= 4
    /\ \E p \in Pairs : \E i \in EventIdx({"roi_exit"}, p) :
          IsLostExit(i) /\ KindAt(p, i) = "roi_enter"

(* C2.  Two roi_enter events of the same pair are never emitted without a  *)
(* roi_exit of that pair between them.                                     *)
C2_EnterFollowsExit ==
    \A p \in Pairs : \A i \in EventIdx({"roi_enter"}, p) :
        KindAt(p, i) # "roi_enter"

(* C3.  At most one dwell_time event of a pair is emitted during one       *)
(* inside-interval: between a dwell_time and the next dwell_time of the    *)
(* pair there is a roi_enter or a roi_exit of the pair.                    *)
C3_OneDwellPerInterval ==
    \A p \in Pairs : \A i \in EventIdx({"dwell_time"}, p) :
        ~DwelledAt(p, i)

(* C4.  A dwell_time event is emitted for a zone only if the threshold     *)
(* given at the latest registration of that zone id is > 0.                *)
C4_DwellOnlyIfConfigured ==
    \A i \in 1..Len(events) :
        events[i].event_type = "dwell_time"
            => configured[events[i].roi_id] > 0

(* C5.  Every roi_exit carries dwell_seconds = last_seen_at - entered_at   *)
(* of the pair's state as it stood before the call, and that is >= 0.      *)
C5_ExitDwell ==
    [][\A i \in 1..Len(events') :
          events'[i].event_type = "roi_exit" =>
              LET e == events'[i]
                  k == KeyIndex(track_states, e.track_id, e.roi_id)
              IN  /\ k # 0
                  /\ e.dwell_seconds = track_states[k].last_seen_at
                                       - track_states[k].entered_at
                  /\ e.dwell_seconds >= 0]_vars

(* C6.  In a process_detections call, a pair marked inside whose track is  *)
(* not among the frame's tracked detections gets a lost roi_exit if and    *)
(* only if now - last_seen_at >= 1.0 s.                                    *)
C6_LostIffTolerance ==
    [][op' = "process_detections" =>
          \A k \in 1..Len(track_states) :
              LET st == track_states[k]
                  exits == {i \in 1..Len(events') :
                               /\ events'[i].event_type = "roi_exit"
                               /\ events'[i].track_id = st.track_id
                               /\ events'[i].roi_id = st.roi_id}
              IN  (st.is_inside /\ st.track_id \notin SeenTrackIds(frame'))
                  => (exits # {}
                      <=> clock' - st.last_seen_at >= LostToleranceTicks)]_vars

(* C7.  After a lost roi_exit of a pair the store holds no TrackState of   *)
(* the pair; when the track is next seen inside the zone, with no state of *)
(* the pair in the store, a roi_enter is emitted and the new state has     *)
(* entered_at = last_seen_at = the time of that call.                      *)
C7_LostStateRemoved ==
    [][op' = "process_detections" =>
          \A p \in Pairs :
              LET lost == {i \in 1..Len(events') :
                              /\ events'[i].event_type = "roi_exit"
                              /\ PairOf(events'[i]) = p
                              /\ p[1] \notin SeenTrackIds(frame')}
                  enters == {i \in 1..Len(events') :
                                /\ events'[i].event_type = "roi_enter"
                                /\ PairOf(events'[i]) = p}
                  seen_inside ==
                      \E j \in 1..Len(frame'), r \in 1..Len(rois) :
                          /\ frame'[j].track_id = p[1]
                          /\ rois[r].id = p[2]
                          /\ rois[r].is_active
                          /\ Contains(rois[r].points,
                                 compute_reference_point(
                                     frame'[j].bbox, rois[r].reference_point))
                  k == KeyIndex(track_states', p[1], p[2])
              IN  /\ lost # {} => ~HasState(track_states', p[1], p[2])
                  /\ (/\ ~HasState(track_states, p[1], p[2])
                      /\ kind_before'[p] = "roi_exit"
                      /\ seen_inside)
                     => /\ enters # {}
                        /\ k # 0
                        /\ track_states'[k].is_inside
                        /\ track_states'[k].entered_at = clock'
                        /\ track_states'[k].last_seen_at = clock']_vars

\* the reaper has just emitted the roi_exit of a pair and dropped its state
C7_Witness ==
    \E p \in Pairs : \E i \in EventIdx({"roi_exit"}, p) :
        /\ IsLostExit(i)
        /\ ~HasState(track_states, p[1], p[2])

(* C8.  If the reference point of a tracked detection, computed with the   *)
(* strategy of zone z, is not contained in the polygon of z, the call      *)
(* emits no roi_enter and no dwell_time for (track_id, z).                 *)
C8_NoEventOutside ==
    \A j \in 1..Len(frame), r \in 1..Len(rois) :
        (/\ frame[j].track_id >= 0
         /\ ~Contains(rois[r].points,
                      compute_reference_point(frame[j].bbox,
                                              rois[r].reference_point)))
        => EventIdx({"roi_enter", "dwell_time"},
                    <<frame[j].track_id, rois[r].id>>) = {}

\* a detection on the edge of an active zone, in a call that emits the
\* roi_exit of that zone
C8_Witness ==
    \E j \in 1..Len(frame), r \in 1..Len(rois) :
        /\ frame[j].bbox = BoxEdge
        /\ rois[r].is_active
        /\ ~Contains(rois[r].points,
                     compute_reference_point(frame[j].bbox,
                                             rois[r].reference_point))
        /\ EventIdx({"roi_exit"}, <<frame[j].track_id, rois[r].id>>) # {}

(* C9.  Scenario A: the call at time 0 returns exactly one roi_enter, the  *)
(* call at 1 s returns nothing, and the call at 2 s returns exactly one    *)
(* dwell_time, with dwell_seconds = 2.0.                                   *)
C9_ScenarioA ==
    /\ nops = 2 => /\ Len(events) = 1
                   /\ events[1].event_type = "roi_enter"
                   /\ PairOf(events[1]) = <<1, "Z1">>
    /\ nops = 3 => events = <<>>
    /\ nops = 4 => /\ Len(events) = 1
                   /\ events[1].event_type = "dwell_time"
                   /\ PairOf(events[1]) = <<1, "Z1">>
                   /\ events[1].dwell_seconds = 20

C9_Witness ==
    /\ nops = 4
    /\ clock = 20
    /\ EventIdx({"dwell_time"}, <<1, "Z1">>) # {}

(* C10.  Scenario B: in the calls after the object's last sighting at most *)
(* one roi_exit of the pair is emitted, with dwell_seconds >= 2.0; once a  *)
(* call has been made 1.5 s after the last sighting exactly one has been   *)
(* emitted and the store holds no TrackState of the pair.                  *)
C10_ScenarioB ==
    nops >= 5 =>
        LET p == <<1, "Z1">>
            exits == EventIdx({"roi_exit"}, p)
        IN  /\ \A i \in exits : /\ KindAt(p, i) = "roi_enter"
                               /\ events[i].dwell_seconds >= 20
            /\ clock >= 35 =>
                  /\ LastKindAfter(kind_before[p], events, 1, p) = "roi_exit"
                  /\ ~HasState(track_states, 1, "Z1")

\* the call made 1.5 s after the last sighting is the one that emits the
\* roi_exit
C10_Witness ==
    /\ nops >= 5
    /\ clock = 35
    /\ EventIdx({"roi_exit"}, <<1, "Z1">>) # {}

---------------------------------------------------------------------------
(* Reading a load.                                                         *)

\* an entry the zone document format admits: the required keys are there,
\* "points" is a list of at least 3 points whose polygon is valid, at the
\* latest after buffer(0), and "color" and "dwell_threshold_sec" are absent
\* or of their type.  An unknown reference_point string is admitted.
WellFormed(e) ==
    /\ e.id.t = "str"
    /\ e.name.t = "str"
    /\ e.points.t = "list"
    /\ Len(e.points.v) >= 3
    /\ IsValid(e.points.v) \/ report.buffer_valid
    /\ e.color.t \in {"absent", "list"}
    /\ e.dwell_threshold_sec.t \in {"absent", "num"}

Loaded == op = "load_from_file" /\ document.kind = "document"

\* the registry after the well-formed entries from position i on are put
\* into registry, in their order
RECURSIVE RegistryOf(_, _, _)
RegistryOf(registry, entries, i) ==
    IF i > Len(entries)
    THEN registry
    ELSE RegistryOf(IF WellFormed(entries[i])
                    THEN PutRoi(registry, EntryRoi(entries[i]))
                    ELSE registry,
                    entries, i + 1)

(* C11.  Loading a document with N well-formed and M malformed entries     *)
(* reports loaded = N and total = N + M, wherever the malformed entries    *)
(* are in the list.                                                        *)
C11_LoadCounts ==
    Loaded =>
        /\ report.loaded =
               Cardinality({i \in 1..Len(document.rois) :
                               WellFormed(document.rois[i])})
        /\ report.total = Len(document.rois)

(* C12.  load_from_file raises for no document: every malformed entry is   *)
(* skipped and every well-formed entry, before or after it, is registered. *)
C12_LoadNeverAborts ==
    Loaded =>
        /\ report.raised = "none"
        /\ rois = RegistryOf(<<>>, document.rois, 1)

(* C13.  load_from_file on a source that is missing or that cannot be      *)
(* parsed returns 0 without raising, and registers nothing.                *)
C13_UnreadableSource ==
    (op = "load_from_file" /\ document.kind \in {"missing", "not_json"}) =>
        /\ report.raised = "none"
        /\ report.loaded = 0
        /\ rois = <<>>

(* C14.  While the registry holds no zone, a process_detections call       *)
(* returns an empty list and leaves no TrackState in the store, whatever   *)
(* the detections are.                                                     *)
C14_EmptyRegistrySilent ==
    (op = "process_detections" /\ rois = <<>>) =>
        /\ events = <<>>
        /\ track_states = <<>>

\* a call with a tracked detection on an engine whose zones were cleared
\* after the track had entered one
C14_Witness ==
    /\ op = "process_detections"
    /\ rois = <<>>
    /\ \E j \in 1..Len(frame) : frame[j].track_id >= 0
    /\ \E p \in Pairs : kind_before[p] = "roi_enter"

(* C15.  A zone whose polygon is still invalid after the buffer(0) repair  *)
(* is not added to the registry and is not counted as loaded, and the      *)
(* other entries of the document are registered and counted as without it. *)
C15_UnrepairedRejected ==
    (Loaded /\ report.raised = "none") =>
        /\ \A r \in 1..Len(rois) :
              IsValid(rois[r].points) \/ report.buffer_valid
        /\ report.loaded =
               Cardinality({i \in 1..Len(document.rois) :
                               LET e == document.rois[i]
                               IN  /\ EntryException(e) = "none"
                                   /\ IsValid(e.points.v)
                                      \/ report.buffer_valid})

(* C16.  get_children(P) returns exactly the registered zones whose        *)
(* parent_id is P, each once and no grandchild of P, whether P is active,  *)
(* inactive or not registered and whatever the is_active flags of the      *)
(* children are.                                                           *)
C16_DirectChildren ==
    op = "get_children" =>
        LET P == children.parent_id
            result == children.result
        IN  /\ \A i \in 1..Len(result) :
                  /\ result[i].parent_id = P
                  /\ \E r \in 1..Len(rois) : rois[r] = result[i]
            /\ \A r \in 1..Len(rois) :
                  rois[r].parent_id = P
                  => \E i \in 1..Len(result) : result[i] = rois[r]
            /\ Len(result) =
                   Cardinality({r \in 1..Len(rois) : rois[r].parent_id = P})

\* the children of an inactive Z1, asked for while an inactive child and a
\* grandchild are registered
C16_Witness ==
    /\ op = "get_children"
    /\ children.parent_id = "Z1"
    /\ Len(children.result) = 1
    /\ ~children.result[1].is_active
    /\ \E r \in 1..Len(rois) : rois[r].id = "Z1" /\ ~rois[r].is_active
    /\ \E r \in 1..Len(rois) : rois[r].parent_id = children.result[1].id

(* C17.  reset() removes every TrackState and leaves the registry (the     *)
(* definitions and their is_active flags) and the dwell-threshold map as   *)
(* they were.                                                              *)
C17_ResetFrame ==
    [][op' = "reset" =>
          /\ track_states' = <<>>
          /\ rois' = rois
          /\ dwell_thresholds' = dwell_thresholds]_vars

\* a reset of an engine that holds a zone with a threshold and a pair that
\* is inside
C17_Witness ==
    /\ op = "reset"
    /\ track_states = <<>>
    /\ DOMAIN dwell_thresholds # {}
    /\ \E p \in Pairs : kind_before[p] = "roi_enter"

(* C18.  clear_all() leaves the registry, the store and the threshold map  *)
(* empty; a zone added next without a threshold has no dwell threshold,    *)
(* and no pair is marked inside.                                           *)
C18_ClearAll ==
    [][/\ op' = "clear_all" =>
             /\ rois' = <<>>
             /\ track_states' = <<>>
             /\ DOMAIN dwell_thresholds' = {}
       /\ (op = "clear_all" /\ op' = "add_roi") =>
             /\ \A r \in 1..Len(rois') :
                   configured'[rois'[r].id] = 0
                   => rois'[r].id \notin DOMAIN dwell_thresholds'
             /\ \A k \in 1..Len(track_states') :
                   ~track_states'[k].is_inside]_vars

\* Z2 alone is registered, without a threshold, on an engine where track 1
\* had entered Z1, which had a threshold: Z1 was cleared
C18_Witness ==
    /\ op = "add_roi"
    /\ Len(rois) = 1
    /\ rois[1].id = "Z2"
    /\ DOMAIN dwell_thresholds = {}
    /\ kind_before[<<1, "Z1">>] = "roi_enter"
    /\ dwelled_before[<<1, "Z1">>]

(* C19.  process_detections ignores the detections whose track_id is < 0:  *)
(* the store and the returned list are those of the call on the list       *)
(* without them (so they protect no inside state from the reaper), and no  *)
(* state and no event carries a negative track_id.                         *)
C19_UntrackedIgnored ==
    [][op' = "process_detections" =>
          LET tracked == SelectSeq(frame', LAMBDA d : d.track_id >= 0)
              out == process_detections(track_states, rois, dwell_thresholds,
                                        tracked, clock')
          IN  /\ track_states' = out.states
              /\ events' = out.events
              /\ \A k \in 1..Len(track_states') :
                    track_states'[k].track_id >= 0
              /\ \A i \in 1..Len(events') : events'[i].track_id >= 0]_vars

\* a call whose only detection is untracked and lies in the zone, and whose
\* list is the lost roi_exit of the pair that was inside
C19_Witness ==
    /\ op = "process_detections"
    /\ Len(frame) = 1
    /\ frame[1].track_id < 0
    /\ \E r \in 1..Len(rois) : rois[r].is_active /\ IsInside(frame[1], rois[r])
    /\ \E i \in 1..Len(events) : IsLostExit(i)

(* C20.  An entry whose reference_point string is none of bottom_center,   *)
(* centroid, top_center, and that is complete otherwise, is registered     *)
(* with the strategy bottom_center and counted as loaded.                  *)
C20_UnknownReferenceFallback ==
    (Loaded /\ report.raised = "none") =>
        LET entries == document.rois
            unknown == {i \in 1..Len(entries) :
                           /\ entries[i].reference_point.t = "str"
                           /\ entries[i].reference_point.v
                                  \notin ReferencePoints
                           /\ WellFormed(entries[i])}
            counted == {i \in 1..Len(entries) :
                           /\ entries[i].id.t = "str"
                           /\ entries[i].name.t = "str"
                           /\ Len(entries[i].points.v) >= 3}
        IN  /\ \A i \in unknown :
                  /\ i \in counted
                  /\ \/ \E j \in counted : j > i /\ entries[j].id = entries[i].id
                     \/ \E r \in 1..Len(rois) :
                           /\ rois[r].id = entries[i].id.v
                           /\ rois[r].points = entries[i].points.v
                           /\ rois[r].reference_point = "bottom_center"
            /\ report.loaded = Cardinality(counted)

\* a load that returned, of a document with such an entry between two
\* others
C20_Witness ==
    /\ Loaded
    /\ report.raised = "none"
    /\ report.loaded = 3
    /\ document.rois[2].reference_point.v = "middle"
    /\ \E r \in 1..Len(rois) :
          rois[r].id = "Z2" /\ rois[r].reference_point = "bottom_center"

(* C21.  For every bounding box (x1, y1, x2, y2), compute_reference_point  *)
(* returns the midpoint of the x-span with the largest y of the box for    *)
(* bottom_center, with the smallest y for top_center, and the centre of    *)
(* the box for centroid.  (The point is in half pixels: a coordinate c is  *)
(* the midpoint of u and v when c - 2u = 2v - c.)                          *)
C21_ReferencePoint ==
    op = "compute_reference_point" =>
        LET x1 == reference.bbox[1]
            y1 == reference.bbox[2]
            x2 == reference.bbox[3]
            y2 == reference.bbox[4]
            x == reference.point[1]
            y == reference.point[2]
            largest == CHOOSE v \in {y1, y2} : v >= y1 /\ v >= y2
            smallest == CHOOSE v \in {y1, y2} : v <= y1 /\ v <= y2
        IN  /\ x - 2 * x1 = 2 * x2 - x
            /\ reference.strategy = "bottom_center" => y = 2 * largest
            /\ reference.strategy = "top_center" => y = 2 * smallest
            /\ reference.strategy = "centroid" => y - 2 * y1 = 2 * y2 - y

\* a box of odd width and height, whose centre is no whole pixel, under
\* the strategy centroid
C21_Witness ==
    /\ op = "compute_reference_point"
    /\ reference.strategy = "centroid"
    /\ (reference.bbox[1] + reference.bbox[3]) % 2 = 1
    /\ (reference.bbox[2] + reference.bbox[4]) % 2 = 1
    /\ reference.bbox[2] < reference.bbox[4]

(* C22.  After every operation each stored TrackState has entered_at set   *)
(* exactly when is_inside is true, and last_seen_at set exactly when       *)
(* is_inside is true.                                                      *)
C22_TimestampsIffInside ==
    \A k \in 1..Len(track_states) :
        /\ (track_states[k].entered_at # None) = track_states[k].is_inside
        /\ (track_states[k].last_seen_at # None) = track_states[k].is_inside

\* the store holds a state that is inside and one that went outside by a
\* normal exit
C22_Witness ==
    /\ \E k \in 1..Len(track_states) : track_states[k].is_inside
    /\ \E k \in 1..Len(track_states) :
          /\ ~track_states[k].is_inside
          /\ kind_before[<<track_states[k].track_id,
                           track_states[k].roi_id>>] = "roi_exit"

(* C23.  After a normal exit (the track is in the frame, its reference     *)
(* point outside the zone it was inside) the store still holds the state   *)
(* of the pair, with is_inside false and entered_at and last_seen_at       *)
(* cleared.                                                                *)
C23_NormalExitKeepsState ==
    \A i \in 1..Len(events) :
        (events[i].event_type = "roi_exit" /\ ~IsLostExit(i)) =>
            LET k == KeyIndex(track_states, events[i].track_id,
                              events[i].roi_id)
            IN  /\ k # 0
                /\ ~track_states[k].is_inside
                /\ track_states[k].entered_at = None
                /\ track_states[k].last_seen_at = None

\* a call that returned a normal roi_exit after the pair had stayed in the
\* zone for a while
C23_Witness ==
    \E i \in 1..Len(events) :
        /\ events[i].event_type = "roi_exit"
        /\ ~IsLostExit(i)
        /\ events[i].dwell_seconds > 0

(* C24.  A TrackState, once created, leaves the store only in a            *)
(* process_detections call that emitted the lost roi_exit of its pair, or  *)
(* by clear_all(); no other operation removes it.                          *)
C24_RemovalOnlyByReaperOrClear ==
    [][\A k \in 1..Len(track_states) :
          LET p == <<track_states[k].track_id, track_states[k].roi_id>>
          IN  ~HasState(track_states', p[1], p[2]) =>
                 \/ op' = "clear_all"
                 \/ /\ op' = "process_detections"
                    /\ \E i \in 1..Len(events') :
                          /\ PairOf(events'[i]) = p
                          /\ events'[i].event_type = "roi_exit"
                          /\ p[1] \notin SeenTrackIds(frame')]_vars

(* C24, amended.  A TrackState, once created, leaves the store only in a   *)
(* process_detections call that emitted the lost roi_exit of its pair, by  *)
(* reset() or by clear_all().                                              *)
C24_RemovalOnlyByReaperResetOrClear ==
    [][\A k \in 1..Len(track_states) :
          LET p == <<track_states[k].track_id, track_states[k].roi_id>>
          IN  ~HasState(track_states', p[1], p[2]) =>
                 \/ op' \in {"clear_all", "reset"}
                 \/ /\ op' = "process_detections"
                    /\ \E i \in 1..Len(events') :
                          /\ PairOf(events'[i]) = p
                          /\ events'[i].event_type = "roi_exit"
                          /\ p[1] \notin SeenTrackIds(frame')]_vars

\* the reaper has removed the state of one pair of a track while the state
\* of another pair of that track, Outside since a normal exit, stays
C24_Witness ==
    /\ \E i \in 1..Len(events) : IsLostExit(i)
    /\ \E k \in 1..Len(track_states) :
          /\ ~track_states[k].is_inside
          /\ \E i \in 1..Len(events) :
                /\ IsLostExit(i)
                /\ events[i].track_id = track_states[k].track_id
                /\ events[i].roi_id # track_states[k].roi_id

(* C25.  Frame-drop tolerance: while a pair is inside and the call is made *)
(* less than 1.0 s after its last_seen_at, a call without the track emits  *)
(* no roi_exit of the pair and keeps its state, and a call in which the    *)
(* track is again inside the zone emits no roi_exit and no roi_enter of    *)
(* the pair and keeps its entered_at.                                      *)
C25_FrameDropTolerance ==
    [][op' = "process_detections" =>
          \A k \in 1..Len(track_states) :
              LET st == track_states[k]
                  p == <<st.track_id, st.roi_id>>
                  mine == {i \in 1..Len(events') : PairOf(events'[i]) = p}
                  k2 == KeyIndex(track_states', p[1], p[2])
                  back == \E j \in 1..Len(frame'), r \in 1..Len(rois) :
                              /\ frame'[j].track_id = p[1]
                              /\ rois[r].id = p[2]
                              /\ rois[r].is_active
                              /\ IsInside(frame'[j], rois[r])
              IN  (st.is_inside
                   /\ clock' - st.last_seen_at < LostToleranceTicks) =>
                      /\ p[1] \notin SeenTrackIds(frame') =>
                            /\ mine = {}
                            /\ k2 # 0
                            /\ track_states'[k2] = st
                      /\ back =>
                            /\ \A i \in mine :
                                  events'[i].event_type = "dwell_time"
                            /\ k2 # 0
                            /\ track_states'[k2].is_inside
                            /\ track_states'[k2].entered_at = st.entered_at]_vars

\* where the event at position i of the returned list belongs: the
\* reaper's events after the frame processor's, and those by the position
\* of the detection in the frame, then of the zone in the registry
EventRank(i) ==
    LET e == events[i]
        d == CHOOSE j \in 1..Len(frame) : frame[j].track_id = e.track_id
    IN  IF e.track_id \in SeenTrackIds(frame)
        THEN <<0, d, RoiIndex(rois, e.roi_id)>>
        ELSE <<1, 0, 0>>

(* C26.  The list one process_detections call returns is ordered: first    *)
(* the events of the frame processor, by detection in input order and,     *)
(* for one detection, by zone in registry order; then every lost           *)
(* roi_exit.                                                               *)
C26_EventOrder ==
    op = "process_detections" =>
        \A i, j \in 1..Len(events) :
            i < j =>
                LET a == EventRank(i)
                    b == EventRank(j)
                IN  \/ a[1] < b[1]
                    \/ a[1] = b[1] /\ a[2] < b[2]
                    \/ a[1] = b[1] /\ a[2] = b[2] /\ a[3] < b[3]
                    \/ a[1] = 1 /\ b[1] = 1

\* a call on two zones that returns at least three events, some of the
\* frame processor and some of the reaper
C26_Witness ==
    /\ op = "process_detections"
    /\ Len(events) >= 3
    /\ \E i \in 1..Len(events) : IsLostExit(i)
    /\ \E i \in 1..Len(events) : ~IsLostExit(i)
    /\ Len(rois) = 2

(* C27.  In the reaper, a state that is inside, whose track is not in the  *)
(* frame, that is past the 1.0 s tolerance and whose zone id is not in the *)
(* registry is deleted from the store, and no event is emitted for its     *)
(* pair.                                                                   *)
C27_OrphanDroppedSilently ==
    [][op' = "process_detections" =>
          \A k \in 1..Len(track_states) :
              LET st == track_states[k]
              IN  (/\ st.is_inside
                   /\ st.track_id \notin SeenTrackIds(frame')
                   /\ clock' - st.last_seen_at >= LostToleranceTicks
                   /\ RoiIndex(rois, st.roi_id) = 0)
                  => /\ ~HasState(track_states', st.track_id, st.roi_id)
                     /\ \A i \in 1..Len(events') :
                           PairOf(events'[i]) # <<st.track_id, st.roi_id>>]_vars

\* a call, 1.0 s or more after the last sighting of track 1, that returned
\* the lost roi_exit of (1, Z2) and nothing for (1, Z1), on an engine that
\* held both pairs inside and has Z2 alone in its registry
C27_Witness ==
    /\ op = "process_detections"
    /\ nops = 1
    /\ clock >= 5 + LostToleranceTicks
    /\ Len(rois) = 1
    /\ rois[1].id = "Z2"
    /\ kind_before[<<1, "Z1">>] = "roi_enter"
    /\ track_states = <<>>
    /\ Len(events) = 1
    /\ IsLostExit(1)
    /\ events[1].roi_id = "Z2"

\* the detections of the frames
FrameDetections == UNION {{f[j] : j \in 1..Len(f)} : f \in Frames}

\* the detections of detections that carry track_id and are inside roi
InsideDetections(detections, track_id, roi) ==
    {j \in 1..Len(detections) :
        detections[j].track_id = track_id /\ IsInside(detections[j], roi)}

\* the roi_exit the frame processor emits for the pair of state st of the
\* store states when det, of the same track, is not inside roi
NormalExit(states, st, det, roi, now) ==
    LET out == ProcessPair([states |-> states, events |-> <<>>], det, roi,
                           dwell_thresholds, now)
    IN  out.events[1]

(* C28.  A roi_exit of the reaper carries the confidence and the bbox kept *)
(* in the state of its pair, which are those of the detection of the last  *)
(* call in which the track was seen inside the zone: a call sets them from *)
(* its detection when it sees the track inside and leaves them alone when  *)
(* it does not.  In every other field (event type, zone id, track id,      *)
(* reference-point name, parent id, dwell) the event is the roi_exit the    *)
(* frame processor would emit for the pair at the same reading.            *)
C28_LostExitPayload ==
    [][op' = "process_detections" =>
          /\ \A i \in 1..Len(events') :
                 LET ev == events'[i]
                     k == KeyIndex(track_states, ev.track_id, ev.roi_id)
                     r == RoiIndex(rois, ev.roi_id)
                 IN  (/\ ev.event_type = "roi_exit"
                      /\ ev.track_id \notin SeenTrackIds(frame'))
                     => /\ k # 0
                        /\ r # 0
                        /\ ev.confidence = track_states[k].confidence
                        /\ ev.bbox = track_states[k].bbox
                        /\ ev.roi_id = rois[r].id
                        /\ ev.reference_point_used = rois[r].reference_point
                        /\ ev.parent_roi_id = rois[r].parent_id
                        /\ ev.dwell_seconds
                               = dwell_seconds(track_states[k], clock')
                        /\ \A det \in FrameDetections :
                               (/\ det.track_id = ev.track_id
                                /\ ~IsInside(det, rois[r]))
                               => ev = [NormalExit(track_states,
                                                   track_states[k], det,
                                                   rois[r], clock')
                                           EXCEPT
                                             !.confidence =
                                                 track_states[k].confidence,
                                             !.bbox = track_states[k].bbox]
          /\ \A k \in 1..Len(track_states') :
                 LET st == track_states'[k]
                     r == RoiIndex(rois, st.roi_id)
                     old == KeyIndex(track_states, st.track_id, st.roi_id)
                     seen == IF r # 0 /\ rois[r].is_active
                             THEN InsideDetections(frame', st.track_id,
                                                   rois[r])
                             ELSE {}
                 IN  st.is_inside =>
                        IF seen # {}
                        THEN LET j == CHOOSE j \in seen :
                                          \A h \in seen : h <= j
                             IN  /\ st.confidence = frame'[j].confidence
                                 /\ st.bbox = frame'[j].bbox
                        ELSE /\ old # 0
                             /\ st.confidence = track_states[old].confidence
                             /\ st.bbox = track_states[old].bbox]_vars

\* the reaper has emitted the roi_exit of a pair that was seen inside in
\* two calls or more, last with the box BoxTall at confidence 8
C28_Witness ==
    /\ op = "process_detections"
    /\ \E i \in 1..Len(events) :
           /\ IsLostExit(i)
           /\ events[i].roi_id = "Z2"
           /\ events[i].confidence = 8
           /\ events[i].bbox = BoxTall
           /\ events[i].dwell_seconds > 0
           /\ clock >= events[i].dwell_seconds + LostToleranceTicks
           /\ events[i].parent_roi_id = "Z1"
           /\ events[i].reference_point_used = "centroid"

(* C29.  When process_detections is called with a frame that holds a       *)
(* tracked detection of a track, for an active zone that contains the      *)
(* reference point of no detection of that track, and the state of the     *)
(* pair is outside or not in the store: the returned list has no event of  *)
(* the pair, and after the call the state of the pair is the one it was    *)
(* (is_inside, entered_at, last_seen_at, confidence and bbox unchanged),   *)
(* or the default TrackState if it was not in the store.                   *)
C29_OutsideNoOp ==
    [][op' = "process_detections" =>
          \A t \in SeenTrackIds(frame') :
              \A r \in 1..Len(rois) :
                  LET roi == rois[r]
                      old == KeyIndex(track_states, t, roi.id)
                      new == KeyIndex(track_states', t, roi.id)
                  IN  (/\ roi.is_active
                       /\ InsideDetections(frame', t, roi) = {}
                       /\ old # 0 => ~track_states[old].is_inside)
                      => /\ \A i \in 1..Len(events') :
                                PairOf(events'[i]) # <<t, roi.id>>
                         /\ new # 0
                         /\ track_states'[new]
                                = IF old # 0
                                  THEN track_states[old]
                                  ELSE TrackState(t, roi.id)]_vars

\* track 1 has left Z1 in an earlier call, is in the frame again with a box
\* that Z1 does not contain, and its state still has the confidence and the
\* bbox of the call that saw it inside
C29_Witness ==
    /\ op = "process_detections"
    /\ kind_before[<<1, "Z1">>] = "roi_exit"
    /\ 1 \in SeenTrackIds(frame)
    /\ \E r \in 1..Len(rois) :
           /\ rois[r].id = "Z1"
           /\ rois[r].is_active
           /\ InsideDetections(frame, 1, rois[r]) = {}
    /\ \A i \in 1..Len(events) : PairOf(events[i]) # <<1, "Z1">>
    /\ \E k \in 1..Len(track_states) :
           /\ track_states[k].track_id = 1
           /\ track_states[k].roi_id = "Z1"
           /\ ~track_states[k].is_inside
           /\ track_states[k].confidence = 9
           /\ track_states[k].bbox = BoxIn

(* C30.  When a pair is inside and was seen inside by the last call, its   *)
(* zone is active and has a dwell threshold > 0, the dwell of the pair at  *)
(* that call was below the threshold, and the next call of                 *)
(* process_detections sees the track inside the zone at a reading where    *)
(* the dwell is at or above the threshold, the returned list has a         *)
(* dwell_time of the pair, whatever the time between the two calls.        *)
C30_DwellOnCrossing ==
    [][op' = "process_detections" =>
          \A k \in 1..Len(track_states) :
              LET st == track_states[k]
                  r == RoiIndex(rois, st.roi_id)
                  mine == {j \in 1..Len(frame') :
                              frame'[j].track_id = st.track_id}
              IN  (/\ st.is_inside
                   /\ st.last_seen_at = clock
                   /\ r # 0
                   /\ rois[r].is_active
                   /\ mine # {}
                   /\ mine = InsideDetections(frame', st.track_id, rois[r])
                   /\ st.roi_id \in DOMAIN dwell_thresholds
                   /\ dwell_thresholds[st.roi_id] > 0
                   /\ st.last_seen_at - st.entered_at
                          < dwell_thresholds[st.roi_id]
                   /\ clock' - st.entered_at
                          >= dwell_thresholds[st.roi_id])
                  => \E i \in 1..Len(events') :
                         /\ events'[i].event_type = "dwell_time"
                         /\ PairOf(events'[i]) = <<st.track_id, st.roi_id>>]_vars

\* the events of args at the positions where keep is true, from i on
RECURSIVE Kept(_, _, _)
Kept(args, keep, i) ==
    IF i > Len(args)
    THEN <<>>
    ELSE (IF keep[i] THEN <<args[i]>> ELSE <<>>) \o Kept(args, keep, i + 1)

(* C31.  publish_event called while self._client is None or _connected is  *)
(* false returns False, does not call the client's publish, and leaves     *)
(* _event_count and every other field of the manager as they were.  The    *)
(* events a call hands to the client's publish are events of that call,    *)
(* those for which a connection was read, in their order: an event that    *)
(* was not sent is not sent by a later call.  publish_events returns the   *)
(* number of its events for which publish_event returned True.             *)
C31_UnsentEventDropped ==
    [][LET p == publisher
           q == publisher'
           linked == [i \in 1..Len(q.args) |->
                         q.client # "none" /\ q.reads[i]]
       IN  /\ q.op \in {"publish_event", "publish_events"}
                  => /\ Len(q.returns) = Len(q.args)
                     /\ Len(q.reads) = Len(q.args)
                     /\ \A i \in 1..Len(q.args) :
                            ~linked[i] => ~q.returns[i]
                     /\ q.publish_calls
                            = p.publish_calls \o Kept(q.args, linked, 1)
                     /\ q.event_count - p.event_count
                            = Cardinality({i \in 1..Len(q.args) :
                                              q.returns[i]})
                     /\ q.client = p.client
           /\ (q.op = "publish_event"
                /\ (p.client = "none" \/ ~p.connected))
                  => /\ q.returns = <<FALSE>>
                     /\ q.publish_calls = p.publish_calls
                     /\ q.event_count = p.event_count
                     /\ q.connected = p.connected
           /\ q.op = "publish_events"
                  => q.result = Cardinality({i \in 1..Len(q.args) :
                                               q.returns[i]})
           /\ q.op \notin {"publish_event", "publish_events"}
                  => q.publish_calls = p.publish_calls]_vars

\* publish_events has been called with two events after an event was
\* published: the connection was gone for the first and back for the
\* second, which alone was published
C31_Witness ==
    /\ publisher.op = "publish_events"
    /\ Len(publisher.args) = 2
    /\ publisher.reads = <<FALSE, TRUE>>
    /\ publisher.returns = <<FALSE, TRUE>>
    /\ publisher.result = 1
    /\ publisher.event_count = 2
    /\ Len(publisher.publish_calls) = 2
    /\ publisher.publish_calls[2] = publisher.args[2]

(* C32.  Once stop() has cancelled the persistence task, every payload     *)
(* that was in the event queue when it did has been handed to              *)
(* _persist_event, wherever the task was: waiting on the queue, persisting *)
(* an event, or sleeping after an error.                                   *)
C32_QueueDrainedAtStop ==
    listener.stopped =>
        \A i \in 1..Len(listener.queued_at_stop) :
            \E j \in 1..Len(listener.handed) :
                listener.handed[j] = listener.queued_at_stop[i]

\* the zone of events[i] is registered and active in this state
ZoneActiveAt(i) ==
    \E r \in 1..Len(rois) :
        rois[r].id = events[i].roi_id /\ rois[r].is_active

(* C33.  No event that process_detections returns, from the frame          *)
(* processor or from the reaper, is of a zone whose is_active is false at  *)
(* the time of the call.                                                   *)
C33_NoEventForInactiveZone ==
    op = "process_detections" =>
        \A i \in 1..Len(events) : ZoneActiveAt(i)

(* C33, amended.  No event of the frame processor (a roi_enter, a          *)
(* dwell_time, or a roi_exit of a track that is in the frame) is of a zone *)
(* whose is_active is false at the time of the call; the reaper's roi_exit *)
(* of a lost track is emitted whether its zone is active or not.           *)
C33_NoFrameEventForInactiveZone ==
    op = "process_detections" =>
        \A i \in 1..Len(events) : ~IsLostExit(i) => ZoneActiveAt(i)

\* Z1 is inactive, track 1 is in the frame with a box Z1 contains, and the
\* call returned no event of Z1 and left the pair outside
C33_Witness ==
    /\ op = "process_detections"
    /\ \E r \in 1..Len(rois) :
           /\ rois[r].id = "Z1"
           /\ ~rois[r].is_active
           /\ InsideDetections(frame, 1, rois[r]) # {}
    /\ \A i \in 1..Len(events) : events[i].roi_id # "Z1"
    /\ \A k \in 1..Len(track_states) :
           track_states[k].roi_id = "Z1" => ~track_states[k].is_inside

\* the last roi_enter / roi_exit of (1, Z1), the events of this state
\* included, is a roi_enter, and this call saw track 1 with a reference
\* point outside Z1
LeftWhileEntered ==
    /\ op = "process_detections"
    /\ LastKindAfter(kind_before[<<1, "Z1">>], events, 1, <<1, "Z1">>)
           = "roi_enter"
    /\ \E j \in 1..Len(frame) :
           frame[j].track_id = 1 /\ ~IsInside(frame[j], ScenarioZone)

\* this call returned a roi_exit of (1, Z1)
ExitEmitted ==
    /\ op = "process_detections"
    /\ EventIdx({"roi_exit"}, <<1, "Z1">>) # {}

(* C34.  While process_detections keeps being called, a (track, zone) pair *)
(* whose roi_enter has been emitted and whose track is then seen with its  *)
(* reference point outside the zone gets its roi_exit in that call or a    *)
(* later one, however is_active is switched in between.                    *)
C34_ExitEventually == LeftWhileEntered ~> ExitEmitted

(* C35.  Every dwell_time event is of a zone that has a threshold in the   *)
(* threshold map, and its dwell_seconds d satisfies threshold <= d <       *)
(* threshold + 0.2 and equals the monotonic reading of the call minus the  *)
(* entered_at of the pair.                                                 *)
C35_DwellValue ==
    op = "process_detections" =>
        \A i \in 1..Len(events) :
            events[i].event_type = "dwell_time" =>
                LET ev == events[i]
                    k == KeyIndex(track_states, ev.track_id, ev.roi_id)
                IN  /\ ev.roi_id \in DOMAIN dwell_thresholds
                    /\ dwell_thresholds[ev.roi_id] <= ev.dwell_seconds
                    /\ ev.dwell_seconds
                           < dwell_thresholds[ev.roi_id] + DwellGraceTicks
                    /\ k # 0
                    /\ track_states[k].is_inside
                    /\ ev.dwell_seconds = clock - track_states[k].entered_at

\* a dwell_time at the upper end of the window: 0.2 s after the roi_enter,
\* for a threshold of 0.1 s
C35_Witness ==
    /\ op = "process_detections"
    /\ \E i \in 1..Len(events) :
           /\ events[i].event_type = "dwell_time"
           /\ events[i].dwell_seconds = dwell_thresholds[events[i].roi_id] + 1
           /\ clock > events[i].dwell_seconds

\* the track ids of the states of a store
StoredTracks(states) == {states[k].track_id : k \in 1..Len(states)}

\* the state of (t, roi.id) after the frame processor has run on the
\* detections of t alone, against roi alone, from the state old of the pair
\* (<<>> if it has none)
Isolated(old, t, roi, detections, thresholds, now) ==
    LET mine == SelectSeq(detections, LAMBDA det : det.track_id = t)
        out == ProcessDets([states |-> old, events |-> <<>>], mine, 1,
                           <<roi>>, thresholds, now)
    IN  out.states[1]

(* C36.  One process_detections call leaves the registry and the threshold *)
(* map as they are.  The state of a pair (t, z) with t in the frame under  *)
(* an id >= 0 and z active becomes what the frame processor makes of the   *)
(* pair's own state, the detections of t and z alone, whatever the other   *)
(* zones and tracks are.  The state of any other pair is unchanged, or     *)
(* was inside with t not in the frame and has been deleted by the reaper.  *)
C36_FrameEffect ==
    [][op' = "process_detections" =>
          /\ rois' = rois
          /\ dwell_thresholds' = dwell_thresholds
          /\ \A t \in SeenTrackIds(frame') \cup StoredTracks(track_states)
                        \cup StoredTracks(track_states') :
                 \A z \in ZoneIds :
                     LET old == KeyIndex(track_states, t, z)
                         new == KeyIndex(track_states', t, z)
                         r == RoiIndex(rois, z)
                     IN  IF /\ t \in SeenTrackIds(frame')
                            /\ r # 0
                            /\ rois[r].is_active
                         THEN /\ new # 0
                              /\ track_states'[new]
                                     = Isolated(IF old = 0 THEN <<>>
                                                ELSE <<track_states[old]>>,
                                                t, rois[r], frame',
                                                dwell_thresholds, clock')
                         ELSE \/ old = 0 /\ new = 0
                              \/ /\ old # 0
                                 /\ new # 0
                                 /\ track_states'[new] = track_states[old]
                              \/ /\ old # 0
                                 /\ new = 0
                                 /\ track_states[old].is_inside
                                 /\ t \notin SeenTrackIds(frame')]_vars

\* track 1 is in the frame and has entered Z2 in this call, while its
\* state in the inactive Z1, inside since an earlier call, is as it was
C36_Witness ==
    /\ op = "process_detections"
    /\ 1 \in SeenTrackIds(frame)
    /\ \E i \in 1..Len(events) :
           events[i].event_type = "roi_enter" /\ events[i].roi_id = "Z2"
    /\ \E r \in 1..Len(rois) : rois[r].id = "Z1" /\ ~rois[r].is_active
    /\ \E k \in 1..Len(track_states) :
           /\ track_states[k].roi_id = "Z1"
           /\ track_states[k].is_inside
           /\ track_states[k].last_seen_at < clock

(* C37.  After load_from_file, called on an engine with no zone, has       *)
(* returned loaded = k, the registry holds k zones (roi_count = k), also   *)
(* for a document in which several entries have the same id.               *)
C37_LoadedIsRoiCount ==
    (op = "load_from_file" /\ report.loaded # None) =>
        Len(rois) = report.loaded

====
